---- MODULE Spec2Model ----
(***************************************************************************)
(* HTTP Negotiate authentication with fallback (src/auth/negotiate.rs,     *)
(* src/auth/sspi.rs, src/auth/mod.rs), Windows build with the "negotiate"  *)
(* feature: the orchestrator execute_with_negotiate, the challenge parser, *)
(* the SPN deriver and the SSPI context wrapper, as one state machine of   *)
(* a single call running against an arbitrary server and provider.         *)
(*                                                                         *)
(* Text is a sequence of one-character strings, bytes are 0..255,          *)
(* Option<T> is a sequence of length 0 (None) or 1 (Some).                 *)
(***************************************************************************)
EXTENDS Integers, Sequences, FiniteSets, TLC

(***************************************************************************)
(* Characters                                                              *)
(***************************************************************************)

\* The printable ASCII characters, code 32 (space) to 126 (~), in code order
\* (code 96, the grave accent, is written "grave").
Ascii ==
  << " ", "!", "\"", "#", "$", "%", "&", "'", "(", ")", "*", "+", ",", "-", ".", "/",
     "0", "1", "2", "3", "4", "5", "6", "7", "8", "9", ":", ";", "<", "=", ">", "?",
     "@", "A", "B", "C", "D", "E", "F", "G", "H", "I", "J", "K", "L", "M", "N", "O",
     "P", "Q", "R", "S", "T", "U", "V", "W", "X", "Y", "Z", "[", "\\", "]", "^", "_",
     "grave", "a", "b", "c", "d", "e", "f", "g", "h", "i", "j", "k", "l", "m", "n", "o",
     "p", "q", "r", "s", "t", "u", "v", "w", "x", "y", "z", "{", "|", "}", "~" >>

Tab == "\t"

Char == {Ascii[i] : i \in 1..Len(Ascii)} \cup {Tab}

\* The code of each character
OrdTable ==
  [c \in Char |-> IF c = Tab THEN 9 ELSE 31 + (CHOOSE i \in 1..Len(Ascii) : Ascii[i] = c)]

Ord(c) == OrdTable[c]

Chr(n) == IF n = 9 THEN Tab ELSE Ascii[n - 31]

\* str::as_bytes of an ASCII text
as_bytes(s) == [i \in 1..Len(s) |-> Ord(s[i])]

\* char::to_ascii_lowercase / str::to_lowercase on ASCII text
to_lower_char(c) == IF Ord(c) \in 65..90 THEN Chr(Ord(c) + 32) ELSE c

\* Mutant: no case folding.
to_lowercase_identity(s) == s

to_lowercase(s) == [i \in 1..Len(s) |-> to_lower_char(s[i])]

\* Mutant: the comparison is case-sensitive.
eq_case_sensitive(a, b) == a = b

eq_ignore_ascii_case(a, b) == to_lowercase(a) = to_lowercase(b)

starts_with(s, p) == Len(s) >= Len(p) /\ SubSeq(s, 1, Len(p)) = p

is_whitespace(c) == c \in {" ", Tab}

RECURSIVE trim_start(_)
trim_start(s) ==
  IF s # <<>> /\ is_whitespace(Head(s)) THEN trim_start(Tail(s)) ELSE s

RECURSIVE trim_end(_)
trim_end(s) ==
  IF s # <<>> /\ is_whitespace(s[Len(s)]) THEN trim_end(SubSeq(s, 1, Len(s) - 1)) ELSE s

\* str::trim
trim(s) == trim_end(trim_start(s))

\* &s[n..]
slice_from(s, n) == SubSeq(s, n + 1, Len(s))

(***************************************************************************)
(* Option<T>                                                               *)
(***************************************************************************)
None == <<>>

Some(x) == <<x>>

is_some(o) == o # None

unwrap(o) == o[1]

(***************************************************************************)
(* base64::engine::general_purpose::STANDARD                               *)
(***************************************************************************)
B64Char(v) ==
  IF v < 26 THEN Chr(65 + v)
  ELSE IF v < 52 THEN Chr(97 + (v - 26))
  ELSE IF v < 62 THEN Chr(48 + (v - 52))
  ELSE IF v = 62 THEN "+" ELSE "/"

IsB64Char(c) ==
  \/ Ord(c) \in 65..90
  \/ Ord(c) \in 97..122
  \/ Ord(c) \in 48..57
  \/ c \in {"+", "/"}

B64Val(c) ==
  IF Ord(c) \in 65..90 THEN Ord(c) - 65
  ELSE IF Ord(c) \in 97..122 THEN Ord(c) - 97 + 26
  ELSE IF Ord(c) \in 48..57 THEN Ord(c) - 48 + 52
  ELSE IF c = "+" THEN 62 ELSE 63

RECURSIVE base64_encode(_)
base64_encode(b) ==
  IF Len(b) = 0 THEN <<>>
  ELSE IF Len(b) = 1 THEN
    << B64Char(b[1] \div 4), B64Char((b[1] % 4) * 16), "=", "=" >>
  ELSE IF Len(b) = 2 THEN
    << B64Char(b[1] \div 4), B64Char((b[1] % 4) * 16 + (b[2] \div 16)),
       B64Char((b[2] % 16) * 4), "=" >>
  ELSE
    << B64Char(b[1] \div 4), B64Char((b[1] % 4) * 16 + (b[2] \div 16)),
       B64Char((b[2] % 16) * 4 + (b[3] \div 64)), B64Char(b[3] % 64) >>
    \o base64_encode(SubSeq(b, 4, Len(b)))

\* One group of four characters: Some(bytes) or None.  `last` says whether
\* padding is allowed (only the final group may be padded, canonically, and
\* the unused trailing bits must be zero).
decode_group(g, last) ==
  IF ~(IsB64Char(g[1]) /\ IsB64Char(g[2])) THEN None
  ELSE IF IsB64Char(g[3]) /\ IsB64Char(g[4]) THEN
    Some(<< B64Val(g[1]) * 4 + (B64Val(g[2]) \div 16),
            (B64Val(g[2]) % 16) * 16 + (B64Val(g[3]) \div 4),
            (B64Val(g[3]) % 4) * 64 + B64Val(g[4]) >>)
  ELSE IF last /\ IsB64Char(g[3]) /\ g[4] = "=" /\ B64Val(g[3]) % 4 = 0 THEN
    Some(<< B64Val(g[1]) * 4 + (B64Val(g[2]) \div 16),
            (B64Val(g[2]) % 16) * 16 + (B64Val(g[3]) \div 4) >>)
  ELSE IF last /\ g[3] = "=" /\ g[4] = "=" /\ B64Val(g[2]) % 16 = 0 THEN
    Some(<< B64Val(g[1]) * 4 + (B64Val(g[2]) \div 16) >>)
  ELSE None

\* STANDARD.decode: Some(bytes) for Ok, None for Err.
RECURSIVE base64_decode(_)
base64_decode(s) ==
  IF Len(s) = 0 THEN Some(<<>>)
  ELSE IF Len(s) < 4 THEN None
  ELSE
    LET g == decode_group(SubSeq(s, 1, 4), Len(s) = 4)
        rest == base64_decode(SubSeq(s, 5, Len(s)))
    IN  IF g = None \/ rest = None THEN None
        ELSE Some(unwrap(g) \o unwrap(rest))

(***************************************************************************)
(* Challenge parser                                                        *)
(***************************************************************************)
kwNegotiate == << "n", "e", "g", "o", "t", "i", "a", "t", "e" >>

kwNtlm == << "n", "t", "l", "m" >>

kwBasic == << "b", "a", "s", "i", "c" >>

\* One iteration of the loop over the WWW-Authenticate values: the three
\* accumulators acc = [negotiate_token, ntlm_token, has_basic] after `value`.
parse_header_value(acc, value) ==
  LET trimmed == trim(value) IN
  IF eq_ignore_ascii_case(trimmed, kwNegotiate) THEN
    [acc EXCEPT !.negotiate_token = Some(None)]
  ELSE IF starts_with(to_lowercase(trimmed), kwNegotiate \o <<" ">>) THEN
    LET decoded == base64_decode(trim(slice_from(trimmed, 10))) IN
    IF is_some(decoded)
      THEN [acc EXCEPT !.negotiate_token = Some(Some(unwrap(decoded)))]
      ELSE acc
  ELSE IF eq_ignore_ascii_case(trimmed, kwNtlm) THEN
    [acc EXCEPT !.ntlm_token = Some(None)]
  ELSE IF starts_with(to_lowercase(trimmed), kwNtlm \o <<" ">>) THEN
    LET decoded == base64_decode(trim(slice_from(trimmed, 5))) IN
    IF is_some(decoded)
      THEN [acc EXCEPT !.ntlm_token = Some(Some(unwrap(decoded)))]
      ELSE acc
  ELSE IF starts_with(to_lowercase(trimmed), kwBasic) THEN
    [acc EXCEPT !.has_basic = TRUE]
  ELSE acc

RECURSIVE parse_fold(_, _)
parse_fold(acc, values) ==
  IF values = <<>> THEN acc
  ELSE parse_fold(parse_header_value(acc, Head(values)), Tail(values))

\* parse_www_authenticate(headers): `values` is headers.get_all(WWW_AUTHENTICATE)
\* in header order.
parse_www_authenticate(values) ==
  parse_fold([negotiate_token |-> None, ntlm_token |-> None, has_basic |-> FALSE],
             values)

(***************************************************************************)
(* Errors, results, credentials, URLs, requests                            *)
(***************************************************************************)
Ok(v) == [ok |-> TRUE, val |-> v]

Err(e) == [ok |-> FALSE, val |-> e]

\* crate::error::negotiate(msg): msg is the tuple of the formatted parts.
negotiate(msg) == [kind |-> "negotiate", msg |-> msg]

NotReplayable ==
  negotiate(<<"Request body is not replayable for Negotiate authentication">>)

SpnDerivationFailed == negotiate(<<"URL has no host for SPN">>)

AllMethodsFailed ==
  negotiate(<<"All authentication methods failed or no supported method available">>)

TooManyRoundtrips == negotiate(<<"Too many authentication round-trips">>)

\* Mutant: the missing token is reported as the round-limit failure.
NoNewChallengeToken_as_limit == negotiate(<<"Too many authentication round-trips">>)

NoNewChallengeToken == negotiate(<<"Server returned 401 without new challenge token">>)

NotClonable == negotiate(<<"Request not clonable">>)

AcquireCredentialsFailed(code) == negotiate(<<"SSPI AcquireCredentials failed: 0x", code>>)

InitializeContextFailed(code) == negotiate(<<"SSPI InitializeContext failed: 0x", code>>)

\* An error of the request-execution capability (not made by this module).
TransportError == [kind |-> "request", msg |-> <<"error sending request">>]

\* enum Credentials.  CurrentUser carries no data: its username and password
\* fields are placeholders that no code path reads.
CurrentUser == [kind |-> "CurrentUser", username |-> <<>>, password |-> <<>>]

Explicit(u, p) == [kind |-> "Explicit", username |-> u, password |-> p]

MAX_ROUNDTRIPS == 5

UNAUTHORIZED == 401

\* Mutant: every client-error status is taken for an authentication challenge.
is_unauthorized_any_4xx(status) == status \in 400..499

\* response.status() == http::StatusCode::UNAUTHORIZED
is_unauthorized(status) == status = UNAUTHORIZED

\* Mutant: the round check is off by one.
round_limit_reached_off_by_one(r) == r > MAX_ROUNDTRIPS

\* Mutant: the limit is twice MAX_ROUNDTRIPS.
round_limit_reached_doubled(r) == r >= 2 * MAX_ROUNDTRIPS

\* round >= MAX_ROUNDTRIPS
round_limit_reached(r) == r >= MAX_ROUNDTRIPS

\* Mutant: the round counter is not advanced.
next_round_stuck(r) == r

\* round += 1
next_round(r) == r + 1

\* Mutant: a URL without a host gives the SPN "HTTP/" instead of an error.
derive_spn_empty_host(url) ==
  Ok(<<"H", "T", "T", "P", "/">> \o (IF url.host = None THEN <<>> ELSE unwrap(url.host)))

\* Mutant: the SPN is built from the authority, port included.
derive_spn_with_port(url) ==
  IF url.host = None
    THEN Err(SpnDerivationFailed)
    ELSE Ok(<<"H", "T", "T", "P", "/">> \o unwrap(url.host)
            \o (IF url.port = None THEN <<>> ELSE <<":", "8", "0", "8", "0">>))

\* derive_spn(url): "HTTP/" + host, or the error when the URL has no host.
derive_spn(url) ==
  IF url.host = None
    THEN Err(SpnDerivationFailed)
    ELSE Ok(<<"H", "T", "T", "P", "/">> \o unwrap(url.host))

\* Request::try_clone: a copy with the same method, URL, headers and body, or
\* None when the body is a stream.
try_clone(req) == IF req.body.replayable THEN Some(req) ELSE None

\* Mutant: a request that cannot be cloned is used as its own template.
clone_template_unchecked(req) == Ok(req)

\* request.try_clone().ok_or_else(|| negotiate("Request body is not replayable ..."))
clone_template(req) ==
  IF try_clone(req) = None THEN Err(NotReplayable) ELSE Ok(unwrap(try_clone(req)))

AUTHORIZATION == "authorization"

\* HeaderMap::insert: the value replaces every value the name had.
headers_insert(headers, name, value) ==
  {h \in headers : h[1] # name} \cup {<<name, value>>}

\* Mutant: the Authorization header replaces the whole header map.
with_authorization_only(req, value) ==
  [req EXCEPT !.headers = {<<AUTHORIZATION, value>>}]

\* auth_request.headers_mut().insert(AUTHORIZATION, value)
with_authorization(req, value) ==
  [req EXCEPT !.headers = headers_insert(req.headers, AUTHORIZATION, value)]

authorization_of(req) == {h[2] : h \in {x \in req.headers : x[1] = AUTHORIZATION}}

format_Negotiate == << "N", "e", "g", "o", "t", "i", "a", "t", "e", " " >>

\* Mutant: the NTLM attempt writes the Negotiate scheme name.
format_NTLM_as_Negotiate == << "N", "e", "g", "o", "t", "i", "a", "t", "e", " " >>

format_NTLM == << "N", "T", "L", "M", " " >>

format_Basic == << "B", "a", "s", "i", "c", " " >>

(***************************************************************************)
(* The environment: what the caller passes, what the server answers, what  *)
(* the security provider returns                                           *)
(***************************************************************************)
txt_u == << "u" >>

txt_p == << "p" >>

CredentialChoices == {CurrentUser, Explicit(txt_u, txt_p), Explicit(<<>>, txt_p)}

txt_host == << "s", "r", "v" >>

\* https://srv:8080/api and a URL without a host (such as data:,x)
Urls ==
  { [scheme |-> "https", host |-> Some(txt_host), port |-> Some(8080), path |-> "/api"],
    [scheme |-> "data", host |-> None, port |-> None, path |-> ",x"] }

CONTENT_TYPE == "content-type"

txt_json == << "j", "s", "o", "n" >>

\* A JSON POST whose body is held in memory (replayable) or is a one-shot
\* stream (not replayable).
Requests ==
  { [method |-> "POST", url |-> u, headers |-> {<<CONTENT_TYPE, txt_json>>},
     body |-> [replayable |-> r, data |-> "{}"]] : u \in Urls, r \in BOOLEAN }

hNegotiate == << "N", "e", "g", "o", "t", "i", "a", "t", "e" >>

\* "Negotiate AQI=": token bytes 1, 2
hNegotiateTok == hNegotiate \o << " ", "A", "Q", "I", "=" >>

\* "negotiate Aw==": token byte 3
hNegotiateTok2 == kwNegotiate \o << " ", "A", "w", "=", "=" >>

\* "Negotiate !!": not base64
hNegotiateBad == hNegotiate \o << " ", "!", "!" >>

hNTLM == << "N", "T", "L", "M" >>

\* "NTLM /w==": token byte 255
hNTLMTok == hNTLM \o << " ", "/", "w", "=", "=" >>

\* Basic realm="x"
hBasic == << "B", "a", "s", "i", "c", " ", "r", "e", "a", "l", "m", "=", "\"", "x", "\"" >>

\* The WWW-Authenticate values of a response, in header order.
ChallengeLists ==
  { <<>>,
    <<hNegotiate>>, <<hNegotiateTok>>, <<hNegotiateTok2>>, <<hNegotiateBad>>,
    <<hNTLM>>, <<hNTLMTok>>,
    <<hBasic>>,
    <<hNegotiate, hNTLM, hBasic>>,
    <<hNegotiateTok, hNTLMTok, hBasic>>,
    <<hNTLM, hBasic>>,
    <<hNegotiate, hBasic>> }

Statuses == {200, 401, 403}

\* What execute_fn resolves to: a response or a transport error.  `id` is
\* the number of the request the response answers.
\* The WWW-Authenticate values of the responses that are not a 401
OtherLists == { <<>>, <<hNegotiateTok>> }

ExecuteOutcomes(id) ==
  { Ok([status |-> UNAUTHORIZED, www_authenticate |-> ch, id |-> id]) :
      ch \in ChallengeLists }
  \cup { Ok([status |-> st, www_authenticate |-> ch, id |-> id]) :
      st \in Statuses \ {UNAUTHORIZED}, ch \in OtherLists }
  \cup { Err(TransportError) }

\* SEC_E_LOGON_DENIED, SEC_E_NO_CREDENTIALS
ProviderErrorCodes == { -2146893044 }

AcquireOutcomes == { Ok(TRUE) } \cup { Err(c) : c \in ProviderErrorCodes }

OutputTokens == { << 78 >>, << 96, 130 >> }

\* Ok((token, is_complete)) or Err(code)
InitializeOutcomes ==
  { Ok([token |-> t, is_complete |-> c]) : t \in OutputTokens, c \in BOOLEAN }
  \cup { Err(c) : c \in ProviderErrorCodes }

(***************************************************************************)
(* State                                                                   *)
(***************************************************************************)
VARIABLES
  request,          \* the request handed to execute_with_negotiate
  creds,            \* the credentials handed to it
  pc,               \* where the call is
  original_request, \* Option: the template cloned at entry
  challenges,       \* (negotiate_challenge, ntlm_challenge, has_basic) of the initial 401
  spn,              \* Option: the derived SPN
  ctx,              \* Option: the SspiContext of the running attempt
  input_token,      \* Option: the attempt's input token
  round,            \* the attempt's round counter
  in_flight,        \* the requests handed to execute_fn and not yet answered
  result,           \* Option: what the call returned
  sent,             \* history: the Authorization scheme of every request handed
                    \* to execute_fn, in order (the empty text for none)
  calls,            \* history: the provider calls made so far, per package
  live_handles,     \* history: OS handles acquired and not yet freed
  received,         \* Option: the outcome execute_fn resolved to in the last step
  last_call,        \* Option: the provider call made in the last step
  emitted,          \* the log::debug! records emitted in the last step
  clones,           \* history: how many clones try_clone has produced
  parses,           \* history: how many times parse_www_authenticate has run
  log,              \* history: every log record emitted so far, in order
  values,           \* parse_www_authenticate: the header values still to scan
  scanned,          \* parse_www_authenticate: the header values scanned so far
  acc,              \* parse_www_authenticate: (negotiate_token, ntlm_token, has_basic)
  script,           \* the scenario the environment of the call follows ("any": whatever)
  parked,           \* two calls: the state of the call that is not running
  me                \* two calls: which of them is running

vars ==
  << request, creds, pc, original_request, challenges, spn, ctx, input_token, round,
     in_flight, result, sent, calls, live_handles, received, last_call, emitted,
     clones, parses, log, values, scanned, acc, script, parked, me >>

\* The variables of a call of execute_with_negotiate.
call_vars ==
  << request, creds, pc, original_request, challenges, spn, ctx, input_token, round,
     in_flight, result, sent, calls, live_handles, received, last_call, emitted,
     clones, parses, log >>

\* The variables of a run of the parser on its own.
parser_vars == << values, scanned, acc >>

\* What no step of a call changes: the parser's variables, the scenario of
\* its environment, the other call.
aside == << values, scanned, acc, script, parked, me >>

Packages == {"Negotiate", "NTLM"}

NoChallenges == [negotiate_token |-> None, ntlm_token |-> None, has_basic |-> FALSE]

\* The locals and the history of a call that has not started.
InitLocals ==
  /\ pc = "start"
  /\ original_request = None
  /\ challenges = NoChallenges
  /\ spn = None
  /\ ctx = None
  /\ input_token = None
  /\ round = 0
  /\ in_flight = <<>>
  /\ result = None
  /\ sent = <<>>
  /\ received = None
  /\ calls = [p \in Packages |-> [acquire |-> 0, initialize |-> 0]]
  /\ last_call = None
  /\ live_handles = {}
  /\ emitted = <<>>
  /\ clones = 0
  /\ parses = 0
  /\ log = <<>>

InitCall ==
  /\ request \in Requests
  /\ creds \in CredentialChoices
  /\ InitLocals

NoParse ==
  /\ values = <<>>
  /\ scanned = <<>>
  /\ acc = NoChallenges

\* One call, in an environment that may answer anything.
Init ==
  /\ InitCall
  /\ NoParse
  /\ script = "any"
  /\ parked = <<>>
  /\ me = 1

(***************************************************************************)
(* Scenarios: an environment whose answers are fixed by the number of the  *)
(* request and of the provider call, so that two calls can be given the    *)
(* same server responses and provider results                              *)
(***************************************************************************)
Scenarios ==
  { "challenges forever", "negotiate succeeds", "ntlm request lost", "no authentication",
    "provider fails", "connection lost" }

Response(status, www_authenticate, id) ==
  Ok([status |-> status, www_authenticate |-> www_authenticate, id |-> id])

\* What execute_fn resolves to for the id-th request of the call.
ScriptedExecute(sc, id) ==
  IF sc = "no authentication" THEN Response(200, <<>>, id)
  ELSE IF sc = "negotiate succeeds" THEN
    IF id = 1 THEN Response(UNAUTHORIZED, <<hNegotiate, hBasic>>, id)
    ELSE IF id = 2 THEN Response(UNAUTHORIZED, <<hNegotiateTok>>, id)
    ELSE Response(200, <<hNegotiateTok>>, id)
  ELSE IF sc = "connection lost" THEN
    IF id = 1 THEN Response(UNAUTHORIZED, <<hNegotiate, hNTLM, hBasic>>, id)
    ELSE Err(TransportError)
  ELSE IF sc = "ntlm request lost" THEN
    IF id = 1 THEN Response(UNAUTHORIZED, <<hNTLM, hBasic>>, id)
    ELSE IF id = 2 THEN Err(TransportError)
    ELSE Response(403, <<>>, id)
  ELSE
    IF id = 1 THEN Response(UNAUTHORIZED, <<hNegotiate, hNTLM, hBasic>>, id)
    ELSE Response(UNAUTHORIZED, <<hNegotiateTok, hNTLMTok, hBasic>>, id)

\* What acquire_credentials returns for the package.
ScriptedAcquire(sc, package) ==
  IF sc = "provider fails" /\ package = "Negotiate"
    THEN Err(CHOOSE c \in ProviderErrorCodes : TRUE)
    ELSE Ok(TRUE)

\* What initialize_context returns for the package after n earlier calls.
ScriptedInitialize(sc, package, n) ==
  IF sc = "provider fails" /\ n = 2
    THEN Err(CHOOSE c \in ProviderErrorCodes : TRUE)
    ELSE Ok([token |-> IF n = 0 THEN << 78 >> ELSE << 96, 130 >>, is_complete |-> n >= 1])

\* execute_fn(request).await for the id-th request
execute_fn_outcomes(id) ==
  IF script = "any" THEN ExecuteOutcomes(id) ELSE {ScriptedExecute(script, id)}

\* AcquireCredentialsHandleW
acquire_outcomes(package) ==
  IF script = "any" THEN AcquireOutcomes ELSE {ScriptedAcquire(script, package)}

\* InitializeSecurityContextW
initialize_outcomes(package) ==
  IF script = "any" THEN InitializeOutcomes
  ELSE {ScriptedInitialize(script, package, calls[package].initialize)}

(***************************************************************************)
(* SspiContext (src/auth/sspi.rs)                                          *)
(***************************************************************************)
\* Mutant: the new context is taken to hold a security context already.
SspiContext_new_with_ctx(package) ==
  [package |-> package, has_cred |-> FALSE, has_ctx |-> TRUE]

\* SspiContext::new(package)
SspiContext_new(package) == [package |-> package, has_cred |-> FALSE, has_ctx |-> FALSE]

\* str::find(ch): Some(0-based position of the first ch) or None
find(s, ch) ==
  IF \E i \in 1..Len(s) : s[i] = ch
    THEN Some((CHOOSE i \in 1..Len(s) : s[i] = ch /\ \A j \in 1..(i - 1) : s[j] # ch) - 1)
    ELSE None

\* Mutant: the whole name is passed as the user, with an empty domain.
acquire_with_explicit_unsplit(username, password) ==
  [user |-> username, domain |-> <<>>, password |-> password]

\* acquire_with_explicit: the SEC_WINNT_AUTH_IDENTITY_W handed to
\* AcquireCredentialsHandleW (user, domain, password).
acquire_with_explicit(username, password) ==
  LET at == find(username, "@")
      bs == find(username, "\\")
  IN  IF is_some(at) THEN
        [user |-> SubSeq(username, 1, unwrap(at)),
         domain |-> slice_from(username, unwrap(at) + 1),
         password |-> password]
      ELSE IF is_some(bs) THEN
        [user |-> slice_from(username, unwrap(bs) + 1),
         domain |-> SubSeq(username, 1, unwrap(bs)),
         password |-> password]
      ELSE [user |-> username, domain |-> <<>>, password |-> password]

\* acquire_credentials: the pAuthData of the AcquireCredentialsHandleW call,
\* None (NULL) for the current logon session.
acquire_credentials_auth_data(c) ==
  LET use_explicit == c.kind = "Explicit" /\ c.username # <<>>
  IN  IF use_explicit THEN Some(acquire_with_explicit(c.username, c.password)) ELSE None

\* Mutant: the context does not record the acquired credential handle.
acquire_credentials_unrecorded(c, outcome) == c

\* The context after acquire_credentials returned `outcome`.
acquire_credentials(c, outcome) ==
  IF outcome.ok THEN [c EXCEPT !.has_cred = TRUE] ELSE c

\* Mutant: the context does not record that a security context exists.
initialize_context_forgets(c, outcome) == c

\* The context after initialize_context returned `outcome`.
initialize_context(c, outcome) ==
  IF outcome.ok THEN [c EXCEPT !.has_ctx = TRUE] ELSE c

\* Mutant: drop deletes the security context and forgets the credential handle.
drop_handles_ctx_only(c) == IF c.has_ctx THEN {<<c.package, "ctx">>} ELSE {}

\* impl Drop for SspiContext: the handles it frees.
drop_handles(c) ==
  (IF c.has_ctx THEN {<<c.package, "ctx">>} ELSE {})
  \cup (IF c.has_cred THEN {<<c.package, "cred">>} ELSE {})

(***************************************************************************)
(* History helpers                                                         *)
(***************************************************************************)
RECURSIVE take_until_space(_)
take_until_space(s) ==
  IF s = <<>> \/ Head(s) = " " THEN <<>> ELSE <<Head(s)>> \o take_until_space(Tail(s))

\* The scheme named by the request's Authorization header (empty: no header).
auth_scheme(req) ==
  LET a == authorization_of(req)
  IN  IF a = {} THEN <<>> ELSE take_until_space(CHOOSE v \in a : TRUE)

\* execute_fn(req) is called: the request is in flight.
Send(req) ==
  /\ in_flight' = Append(in_flight, req)
  /\ sent' = Append(sent, auth_scheme(req))

\* The awaited execute_fn call resolves to `o`.
Resolve(o) ==
  /\ in_flight' = Tail(in_flight)
  /\ received' = Some(o)

\* The step awaits nothing, calls no provider, logs nothing.
NoResolve == received' = None

NoCall == last_call' = None

NoLog == emitted' = <<>>

\* The records of the step go to the log (log::debug!).
Logged == log' = log \o emitted'

\* The locals of an attempt go out of scope.
ClearLocals == input_token' = None /\ round' = 0

Return(r) ==
  /\ result' = Some(r)
  /\ pc' = "done"

is_success(status) == status \in 200..299

(***************************************************************************)
(* execute_with_negotiate                                                  *)
(***************************************************************************)
\* Mutant: the error of the initial request is replaced by the orchestrator's
\* own error.
propagate_as_all_failed(o) == Err(AllMethodsFailed)

\* The `?` of `execute_fn(request).await?`: the error is returned as it is.
propagate(o) == Err(o.val)

\* Lines 99-106: clone the request as the template, then send the request
\* itself without authentication.
execute_with_negotiate_begin ==
  /\ pc = "start"
  /\ LET cloned == clone_template(request) IN
     IF ~cloned.ok THEN
       /\ Return(Err(cloned.val))
       /\ UNCHANGED << original_request, in_flight, sent, clones >>
     ELSE
       /\ original_request' = Some(cloned.val)
       /\ clones' = clones + 1
       /\ Send(request)
       /\ pc' = "await_initial"
       /\ UNCHANGED result
  /\ NoResolve /\ NoCall /\ NoLog
  /\ UNCHANGED << request, creds, challenges, spn, ctx, input_token, round, calls,
                  live_handles, parses >>
  /\ Logged
  /\ UNCHANGED aside

\* Lines 106-118: the initial request resolves; a non-401 is returned, a 401
\* is parsed and the SPN derived.
execute_with_negotiate_initial ==
  /\ pc = "await_initial"
  /\ \E o \in execute_fn_outcomes(Len(sent)) :
       /\ Resolve(o)
       /\ IF ~o.ok THEN
            /\ Return(propagate(o))
            /\ UNCHANGED << challenges, spn, parses >>
          ELSE IF ~is_unauthorized(o.val.status) THEN
            /\ Return(Ok(o.val))
            /\ UNCHANGED << challenges, spn, parses >>
          ELSE
            LET s == derive_spn(unwrap(original_request).url) IN
            /\ challenges' = parse_www_authenticate(o.val.www_authenticate)
            /\ parses' = parses + 1
            /\ IF ~s.ok THEN
                 /\ Return(Err(s.val))
                 /\ UNCHANGED spn
               ELSE
                 /\ spn' = Some(s.val)
                 /\ pc' = "try_negotiate"
                 /\ UNCHANGED result
  /\ NoCall /\ NoLog
  /\ UNCHANGED << request, creds, original_request, ctx, input_token, round, sent, calls,
                  live_handles, clones >>
  /\ Logged
  /\ UNCHANGED aside

(***************************************************************************)
(* try_negotiate_auth and try_ntlm_auth: the same handshake, for package   *)
(* "Negotiate" fed by negotiate_challenge and package "NTLM" fed by        *)
(* ntlm_challenge                                                          *)
(***************************************************************************)
\* Mutant: both attempts are gated and fed by the Negotiate challenge.
challenge_of_negotiate_only(package, parsed) == parsed.negotiate_token

\* Mutant: a challenge of either scheme enables both attempts.
challenge_of_either(package, parsed) ==
  IF parsed.negotiate_token # None THEN parsed.negotiate_token ELSE parsed.ntlm_token

challenge_of(package, parsed) ==
  IF package = "Negotiate" THEN parsed.negotiate_token ELSE parsed.ntlm_token

format_of(package) == IF package = "Negotiate" THEN format_Negotiate ELSE format_NTLM

pc_try(package) == IF package = "Negotiate" THEN "try_negotiate" ELSE "try_ntlm"

pc_loop(package) == IF package = "Negotiate" THEN "negotiate_loop" ELSE "ntlm_loop"

pc_await(package) == IF package = "Negotiate" THEN "await_negotiate" ELSE "await_ntlm"

\* Where execute_with_negotiate goes on after the attempt returned Err.
pc_after(package) == IF package = "Negotiate" THEN "try_ntlm" ELSE "try_basic"

\* Mutant: the attempt's error is propagated to the caller (a `?` in place of
\* the match).
attempt_failed_propagates(package, c, e) ==
  /\ ctx' = None
  /\ live_handles' = live_handles \ drop_handles(c)
  /\ ClearLocals
  /\ emitted' = <<>>
  /\ Return(Err(e))

\* Mutant: the Err arm logs the credentials along with the error.
attempt_failed_logs_credentials(package, c, e) ==
  /\ ctx' = None
  /\ live_handles' = live_handles \ drop_handles(c)
  /\ ClearLocals
  /\ emitted' = << <<package, "authentication failed", e, creds>> >>
  /\ pc' = pc_after(package)
  /\ UNCHANGED result

\* Mutant: a failed attempt ends the call with the initial 401 response.
attempt_failed_returns_initial(package, c, e) ==
  /\ ctx' = None
  /\ live_handles' = live_handles \ drop_handles(c)
  /\ ClearLocals
  /\ emitted' = <<>>
  /\ Return(Ok([status |-> UNAUTHORIZED, www_authenticate |-> <<>>, id |-> 1]))

\* Mutant: a transport error ends the call; other errors fall through.
attempt_failed_transport_fatal(package, c, e) ==
  /\ ctx' = None
  /\ live_handles' = live_handles \ drop_handles(c)
  /\ ClearLocals
  /\ IF e = TransportError
       THEN emitted' = <<>> /\ Return(Err(e))
       ELSE /\ emitted' = << <<package, "authentication failed", e>> >>
            /\ pc' = pc_after(package)
            /\ UNCHANGED result

\* The attempt returns Err(e): its context `c` is dropped with its other
\* locals, and the Err arm of execute_with_negotiate logs the failure and
\* falls through.
attempt_failed(package, c, e) ==
  /\ ctx' = None
  /\ live_handles' = live_handles \ drop_handles(c)
  /\ ClearLocals
  /\ emitted' = << <<package, "authentication failed", e>> >>
  /\ pc' = pc_after(package)
  /\ UNCHANGED result

\* Mutant: the Ok arm does not return; the next scheme is tried.
attempt_returned_falls_through(package, c, response) ==
  /\ ctx' = None
  /\ live_handles' = live_handles \ drop_handles(c)
  /\ ClearLocals
  /\ emitted' = <<>>
  /\ pc' = pc_after(package)
  /\ UNCHANGED result

\* Mutant: only a 2xx response is returned; any other status is taken for a
\* failed authentication and the next scheme is tried.
attempt_returned_only_success(package, c, response) ==
  /\ ctx' = None
  /\ live_handles' = live_handles \ drop_handles(c)
  /\ ClearLocals
  /\ emitted' = <<>>
  /\ IF is_success(response.status)
       THEN Return(Ok(response))
       ELSE pc' = pc_after(package) /\ UNCHANGED result

\* The attempt returns Ok(response) (a success logs the mutual
\* authentication token of a Negotiate response): its context `c` is dropped
\* with its other locals, and the Ok arm of execute_with_negotiate returns
\* the response.
attempt_returned(package, c, response) ==
  /\ ctx' = None
  /\ live_handles' = live_handles \ drop_handles(c)
  /\ ClearLocals
  /\ emitted' =
       IF /\ package = "Negotiate"
          /\ is_success(response.status)
          /\ LET t == parse_www_authenticate(response.www_authenticate).negotiate_token
             IN  is_some(t) /\ is_some(unwrap(t))
         THEN << <<"Mutual authentication token received from server">> >>
         ELSE <<>>
  /\ Return(Ok(response))

\* The `if <scheme>_challenge.is_some()` of execute_with_negotiate and the
\* head of the attempt: SspiContext::new, acquire_credentials.
handshake_begin(package) ==
  /\ pc = pc_try(package)
  /\ IF ~is_some(challenge_of(package, challenges)) THEN
       /\ pc' = pc_after(package)
       /\ NoCall /\ NoLog
       /\ UNCHANGED << ctx, input_token, round, result, calls, live_handles >>
     ELSE
       \E a \in acquire_outcomes(package) :
         LET c == acquire_credentials(SspiContext_new(package), a) IN
         /\ calls' = [calls EXCEPT ![package].acquire = @ + 1]
         /\ last_call' = Some([op |-> "acquire_credentials", package |-> package,
                               auth_data |-> acquire_credentials_auth_data(creds),
                               outcome |-> a])
         /\ IF a.ok THEN
              /\ ctx' = Some(c)
              /\ live_handles' = live_handles \cup {<<package, "cred">>}
              /\ input_token' = None
              /\ round' = 0
              /\ pc' = pc_loop(package)
              /\ NoLog
              /\ UNCHANGED result
            ELSE
              attempt_failed(package, c, AcquireCredentialsFailed(a.val))
  /\ NoResolve
  /\ UNCHANGED << request, creds, original_request, challenges, spn, in_flight, sent,
                  clones, parses >>
  /\ Logged
  /\ UNCHANGED aside

\* The head of one loop iteration: the round check, initialize_context, the
\* clone with its Authorization header, and the call of execute_fn.
handshake_round(package) ==
  /\ pc = pc_loop(package)
  /\ IF round_limit_reached(round) THEN
       /\ attempt_failed(package, unwrap(ctx), TooManyRoundtrips)
       /\ NoCall
       /\ UNCHANGED << in_flight, sent, calls, clones >>
     ELSE
       \E i \in initialize_outcomes(package) :
         LET c == initialize_context(unwrap(ctx), i) IN
         /\ calls' = [calls EXCEPT ![package].initialize = @ + 1]
         /\ last_call' = Some([op |-> "initialize_context", package |-> package,
                               spn |-> unwrap(spn), input_token |-> input_token,
                               existing_ctx |-> unwrap(ctx).has_ctx, outcome |-> i])
         /\ IF ~i.ok THEN
              /\ attempt_failed(package, c, InitializeContextFailed(i.val))
              /\ UNCHANGED << in_flight, sent, clones >>
            ELSE
              LET token_base64 == base64_encode(i.val.token)
                  cloned == try_clone(unwrap(original_request))
              IN  IF cloned = None THEN
                    /\ attempt_failed(package, c, NotClonable)
                    /\ UNCHANGED << in_flight, sent, clones >>
                  ELSE
                    /\ clones' = clones + 1
                    /\ Send(with_authorization(unwrap(cloned),
                                               format_of(package) \o token_base64))
                    /\ ctx' = Some(c)
                    /\ live_handles' = live_handles \cup {<<package, "ctx">>}
                    /\ pc' = pc_await(package)
                    /\ NoLog
                    /\ UNCHANGED << result, input_token, round >>
  /\ NoResolve
  /\ UNCHANGED << request, creds, original_request, challenges, spn, parses >>
  /\ Logged
  /\ UNCHANGED aside

\* How often the match on the response status runs parse_www_authenticate:
\* once for a 401 (lines 213, 296), once for a success of try_negotiate_auth
\* (line 228), never otherwise.
response_parses(package, o) ==
  IF ~o.ok THEN 0
  ELSE IF is_unauthorized(o.val.status) THEN 1
  ELSE IF package = "Negotiate" /\ is_success(o.val.status) THEN 1
  ELSE 0

\* Mutant: no further round once the provider has reported the handshake
\* complete.
continue_handshake_unless_complete(token) ==
  /\ is_some(token)
  /\ is_some(unwrap(token))
  /\ ~unwrap(last_call).outcome.val.is_complete

\* `if let Some(Some(server_token)) = <scheme>_token`: the 401 carries a token
\* of the scheme.
continue_handshake(token) == is_some(token) /\ is_some(unwrap(token))

\* The authenticated request resolves: the `?` on the transport error and the
\* match on the response status.
handshake_response(package) ==
  /\ pc = pc_await(package)
  /\ \E o \in execute_fn_outcomes(Len(sent)) :
       /\ Resolve(o)
       /\ parses' = parses + response_parses(package, o)
       /\ IF ~o.ok THEN
            attempt_failed(package, unwrap(ctx), o.val)
          ELSE IF is_unauthorized(o.val.status) THEN
            LET token == challenge_of(package, parse_www_authenticate(o.val.www_authenticate))
            IN  IF continue_handshake(token) THEN
                  /\ input_token' = Some(unwrap(unwrap(token)))
                  /\ round' = next_round(round)
                  /\ pc' = pc_loop(package)
                  /\ NoLog
                  /\ UNCHANGED << ctx, live_handles, result >>
                ELSE
                  attempt_failed(package, unwrap(ctx), NoNewChallengeToken)
          ELSE
            attempt_returned(package, unwrap(ctx), o.val)
  /\ NoCall
  /\ UNCHANGED << request, creds, original_request, challenges, spn, sent, calls,
                  clones >>
  /\ Logged
  /\ UNCHANGED aside

try_negotiate_auth_begin == handshake_begin("Negotiate")

try_negotiate_auth_round == handshake_round("Negotiate")

try_negotiate_auth_response == handshake_response("Negotiate")

try_ntlm_auth_begin == handshake_begin("NTLM")

try_ntlm_auth_round == handshake_round("NTLM")

try_ntlm_auth_response == handshake_response("NTLM")

(***************************************************************************)
(* Basic fallback                                                          *)
(***************************************************************************)
\* Mutant: the credentials are joined as password:username.
try_basic_auth_request_swapped(template, username, password) ==
  LET credentials == password \o <<":">> \o username
      encoded == base64_encode(as_bytes(credentials))
      cloned == try_clone(template)
  IN  IF cloned = None THEN None
      ELSE Some(with_authorization(unwrap(cloned), format_Basic \o encoded))

\* try_basic_auth up to the call of execute_fn: Some(request) or None when
\* the template cannot be cloned.
try_basic_auth_request(template, username, password) ==
  LET credentials == username \o <<":">> \o password
      encoded == base64_encode(as_bytes(credentials))
      cloned == try_clone(template)
  IN  IF cloned = None THEN None
      ELSE Some(with_authorization(unwrap(cloned), format_Basic \o encoded))

\* Mutant: Basic is tried for any credentials.
basic_eligible_any_creds(parsed, c) == parsed.has_basic

\* Mutant: Basic is tried for Explicit credentials with a username only, as
\* the provider does for its identity.
basic_eligible_with_username(parsed, c) ==
  parsed.has_basic /\ c.kind = "Explicit" /\ c.username # <<>>

\* `if has_basic { if let Explicit {..} = creds { ... } }`
basic_eligible(parsed, c) == parsed.has_basic /\ c.kind = "Explicit"

\* Lines 146-156 and try_basic_auth up to its await.
try_basic_auth_begin ==
  /\ pc = "try_basic"
  /\ IF basic_eligible(challenges, creds) THEN
       LET r == try_basic_auth_request(unwrap(original_request), creds.username,
                                       creds.password)
       IN  IF r = None THEN
             /\ Return(Err(NotClonable))
             /\ UNCHANGED << in_flight, sent, clones >>
           ELSE
             /\ clones' = clones + 1
             /\ Send(unwrap(r))
             /\ pc' = "await_basic"
             /\ UNCHANGED result
     ELSE
       /\ Return(Err(AllMethodsFailed))
       /\ UNCHANGED << in_flight, sent, clones >>
  /\ NoResolve /\ NoCall /\ NoLog
  /\ UNCHANGED << request, creds, original_request, challenges, spn, ctx, input_token,
                  round, calls, live_handles, parses >>
  /\ Logged
  /\ UNCHANGED aside

\* Line 347 and the `return` of line 149: whatever execute_fn resolves to is
\* what the call returns.
try_basic_auth_response ==
  /\ pc = "await_basic"
  /\ \E o \in execute_fn_outcomes(Len(sent)) :
       /\ Resolve(o)
       /\ Return(o)
  /\ NoCall /\ NoLog
  /\ UNCHANGED << request, creds, original_request, challenges, spn, ctx, input_token,
                  round, sent, calls, live_handles, clones, parses >>
  /\ Logged
  /\ UNCHANGED aside

(***************************************************************************)
(* Cancellation: the caller drops the future of execute_with_negotiate     *)
(* while it is suspended at one of its awaits                              *)
(***************************************************************************)
\* Mutant: the context of the running attempt is not dropped with the future.
future_drops_nothing(c) == {}

\* The handles freed when the future is dropped: those of the SspiContext
\* local of the running attempt, if there is one.
future_drops(c) == IF c = None THEN {} ELSE drop_handles(unwrap(c))

\* The suspension points: the awaits of lines 106, 207, 290 and 347.
SuspensionPoints == {"await_initial", "await_negotiate", "await_ntlm", "await_basic"}

\* The future is dropped at an await: the pending execute_fn future and every
\* local go with it, and the call never runs again.
drop_future ==
  /\ pc \in SuspensionPoints
  /\ pc' = "cancelled"
  /\ in_flight' = <<>>
  /\ ctx' = None
  /\ live_handles' = live_handles \ future_drops(ctx)
  /\ ClearLocals
  /\ NoResolve /\ NoCall /\ NoLog
  /\ UNCHANGED << request, creds, original_request, challenges, spn, result, sent, calls,
                  clones, parses >>
  /\ Logged
  /\ UNCHANGED aside

Next ==
  \/ execute_with_negotiate_begin
  \/ execute_with_negotiate_initial
  \/ try_negotiate_auth_begin
  \/ try_negotiate_auth_round
  \/ try_negotiate_auth_response
  \/ try_ntlm_auth_begin
  \/ try_ntlm_auth_round
  \/ try_ntlm_auth_response
  \/ try_basic_auth_begin
  \/ try_basic_auth_response
  \/ drop_future

Spec == Init /\ [][Next]_vars

\* Every request execution and every provider call returns: a step of the
\* call that can be taken is taken.
SpecLive == Init /\ [][Next]_vars /\ WF_vars(Next)

(***************************************************************************)
(* Two calls of execute_with_negotiate, interleaved at their suspension    *)
(* points: one runs, the other is parked at an await (or has not started,  *)
(* or is over)                                                             *)
(***************************************************************************)
\* Everything a call owns: its arguments, the locals of execute_with_negotiate
\* and of the attempt that runs, its pending request, its handles, and what
\* it has done so far.
call_state ==
  [ request |-> request, creds |-> creds, pc |-> pc,
    original_request |-> original_request, challenges |-> challenges, spn |-> spn,
    ctx |-> ctx, input_token |-> input_token, round |-> round,
    in_flight |-> in_flight, result |-> result, sent |-> sent, calls |-> calls,
    live_handles |-> live_handles, received |-> received, last_call |-> last_call,
    emitted |-> emitted, clones |-> clones, parses |-> parses, log |-> log,
    script |-> script ]

\* Mutant: the round counter is one static shared by the calls, not a local
\* of the attempt: the parked call does not keep its own.
park_without_round(c) == [c EXCEPT !.round = 0]

\* What a suspended call keeps while the other runs: all of its state (the
\* locals live in the call's own future).
park(c) == c

\* Where the executor can switch from one call to the other.
SwitchPoints == SuspensionPoints \cup {"start", "done", "cancelled"}

PairRequest == CHOOSE r \in Requests : r.body.replayable /\ r.url.host # None

PairCredentials == {CurrentUser, Explicit(txt_u, txt_p)}

\* Two calls that have not started, each with its credentials and scenario.
PairInit ==
  /\ InitCall
  /\ NoParse
  /\ request = PairRequest
  /\ creds \in PairCredentials
  /\ script \in Scenarios
  /\ me = 1
  /\ parked \in { [call_state EXCEPT !.creds = c, !.script = sc] :
                     c \in PairCredentials, sc \in Scenarios }

\* The running call is suspended (or over, or not started) and the executor
\* polls the other call.
yield ==
  /\ pc \in SwitchPoints
  /\ parked # <<>>
  /\ parked' = park(call_state)
  /\ me' = 3 - me
  /\ request' = parked.request
  /\ creds' = parked.creds
  /\ pc' = parked.pc
  /\ original_request' = parked.original_request
  /\ challenges' = parked.challenges
  /\ spn' = parked.spn
  /\ ctx' = parked.ctx
  /\ input_token' = parked.input_token
  /\ round' = parked.round
  /\ in_flight' = parked.in_flight
  /\ result' = parked.result
  /\ sent' = parked.sent
  /\ calls' = parked.calls
  /\ live_handles' = parked.live_handles
  /\ received' = parked.received
  /\ last_call' = parked.last_call
  /\ emitted' = parked.emitted
  /\ clones' = parked.clones
  /\ parses' = parked.parses
  /\ log' = parked.log
  /\ script' = parked.script
  /\ UNCHANGED parser_vars

PairNext ==
  \/ Next
  \/ yield

SpecPair == PairInit /\ [][PairNext]_vars

(***************************************************************************)
(* Two calls that differ only in the password of their Explicit            *)
(* credentials, against the same scenario                                  *)
(***************************************************************************)
txt_q == << "q" >>

SecretInit ==
  /\ InitLocals
  /\ NoParse
  /\ request = PairRequest
  /\ creds = Explicit(txt_u, txt_p)
  /\ script \in Scenarios
  /\ me = 1
  /\ parked = [call_state EXCEPT !.creds = Explicit(txt_u, txt_q)]

SpecSecret == SecretInit /\ [][PairNext]_vars

(***************************************************************************)
(* Calls with credentials of every form acquire_credentials tells apart    *)
(***************************************************************************)
\* "", "u", "u@D", "D\u"
Usernames ==
  { <<>>, txt_u, << "u", "@", "D" >>, << "D", "\\", "u" >> }

Passwords == { txt_p, <<>> }

AcquireCredentials ==
  {CurrentUser} \cup {Explicit(u, p) : u \in Usernames, p \in Passwords}

AcquireInit ==
  /\ InitLocals
  /\ NoParse
  /\ request = PairRequest
  /\ creds \in AcquireCredentials
  /\ script \in {"challenges forever", "provider fails"}
  /\ parked = <<>>
  /\ me = 1

SpecAcquire == AcquireInit /\ [][Next]_vars

(***************************************************************************)
(* parse_www_authenticate on its own: the loop over the header values, one *)
(* value per step                                                          *)
(***************************************************************************)
\* "ntlm AQI=": token bytes 1, 2
hNTLMTok2 == kwNtlm \o << " ", "A", "Q", "I", "=" >>

\* "NTLM !!": not base64
hNTLMBad == hNTLM \o << " ", "!", "!" >>

hBasicBare == << "B", "a", "s", "i", "c" >>

hBasicx == << "B", "a", "s", "i", "c", "x" >>

hNegotiatex == hNegotiate \o << "x" >>

hDigest == << "D", "i", "g", "e", "s", "t" >>

\* "Negotiate<TAB>AQI=": the token is separated by a tab
hNegotiateTab == hNegotiate \o << Tab, "A", "Q", "I", "=" >>

\* "NTLM<TAB>/w=="
hNTLMTab == hNTLM \o << Tab, "/", "w", "=", "=" >>

\* " NEGOTIATE  Aw== ": upper case, two spaces before the token, spaces around
hNegotiateWide ==
  << " ", "N", "E", "G", "O", "T", "I", "A", "T", "E", " ", " ", "A", "w", "=", "=", " " >>

\* "BASIC"
hBasicUpper == << "B", "A", "S", "I", "C" >>

HeaderValues ==
  { hNegotiate, hNegotiateTok, hNegotiateTok2, hNegotiateBad,
    hNTLM, hNTLMTok, hNTLMTok2, hNTLMBad,
    hBasic, hBasicBare, hBasicx, hNegotiatex, hDigest,
    hNegotiateTab, hNTLMTab, hNegotiateWide, hBasicUpper }

MaxHeaders == 3

\* headers.get_all(WWW_AUTHENTICATE): up to MaxHeaders values in header order
HeaderLists == UNION { [1..n -> HeaderValues] : n \in 0..MaxHeaders }

\* Lines 44-46: the accumulators before the loop.  No call is running.
ParseInit ==
  /\ InitCall
  /\ request = CHOOSE r \in Requests : r.body.replayable /\ r.url.host # None
  /\ creds = CurrentUser
  /\ values \in HeaderLists
  /\ scanned = <<>>
  /\ acc = NoChallenges
  /\ script = "any"
  /\ parked = <<>>
  /\ me = 1

\* Lines 48-71: one iteration of the loop.
parse_www_authenticate_next ==
  /\ values # <<>>
  /\ acc' = parse_header_value(acc, Head(values))
  /\ scanned' = Append(scanned, Head(values))
  /\ values' = Tail(values)
  /\ UNCHANGED call_vars
  /\ UNCHANGED << script, parked, me >>

SpecParse == ParseInit /\ [][parse_www_authenticate_next]_vars

(***************************************************************************)
(* Properties                                                              *)
(***************************************************************************)
tagNone == <<>>

tagNegotiate == << "N", "e", "g", "o", "t", "i", "a", "t", "e" >>

tagNTLM == << "N", "T", "L", "M" >>

tagBasic == << "B", "a", "s", "i", "c" >>

\* How many requests with this Authorization scheme were sent.
Count(tag) == Cardinality({i \in 1..Len(sent) : sent[i] = tag})

Rank(tag) ==
  IF tag = tagNone THEN 0
  ELSE IF tag = tagNegotiate THEN 1
  ELSE IF tag = tagNTLM THEN 2
  ELSE 3

\* The response received in the last step, when there is one.
ReceivedResponse == received # None /\ unwrap(received).ok

TheResponse == unwrap(received).val

\* Once the call has returned it does nothing more.
ReturnedIsFinal == pc = "done" => UNCHANGED << sent, in_flight, result, calls >>

---------------------------------------------------------------------------
\* C1: when the response to the initial unauthenticated request has a status
\* other than 401, the call returns exactly that response and the initial
\* request is the only request ever sent, whatever challenges the response
\* carries and whatever the credentials are.
C1_InitialNon401 ==
  (ReceivedResponse /\ TheResponse.id = 1 /\ TheResponse.status # 401)
    => /\ pc = "done"
       /\ result = Some(Ok(TheResponse))
       /\ sent = << tagNone >>
       /\ in_flight = <<>>

C1_Non401ReturnedAsIs == []C1_InitialNon401 /\ [][ReturnedIsFinal]_vars

\* A 403 carrying a Negotiate token, with explicit credentials, was returned.
C1_Witness ==
  /\ creds.kind = "Explicit"
  /\ result = Some(Ok([status |-> 403, www_authenticate |-> <<hNegotiateTok>>, id |-> 1]))
  /\ Len(sent) = 1

---------------------------------------------------------------------------
\* C2: scheme attempts run strictly sequentially in the order Negotiate (only
\* if offered by the initial 401), NTLM (only if offered), Basic (only if
\* offered and the credentials are Explicit): the requests are sent in that
\* order, at most one request is in flight, no provider call or request of a
\* later scheme happens while an earlier attempt still runs, and an earlier
\* scheme does nothing once a later one has started.
Started(package) == calls[package].acquire > 0

C2_RequestOrder ==
  /\ \A i, j \in 1..Len(sent) : i < j => Rank(sent[i]) <= Rank(sent[j])
  /\ \A i \in 1..Len(sent) : (sent[i] = tagNone) <=> (i = 1)

C2_OnlyIfOffered ==
  /\ (Started("Negotiate") \/ Count(tagNegotiate) > 0) => is_some(challenges.negotiate_token)
  /\ (Started("NTLM") \/ Count(tagNTLM) > 0) => is_some(challenges.ntlm_token)
  /\ Count(tagBasic) > 0 => (challenges.has_basic /\ creds.kind = "Explicit")

C2_EarlierEnded ==
  /\ (Started("NTLM") \/ Count(tagNTLM) > 0 \/ Count(tagBasic) > 0)
       => /\ \A h \in live_handles : h[1] # "Negotiate"
          /\ ctx # None => unwrap(ctx).package # "Negotiate"
          /\ \A i \in 1..Len(in_flight) : auth_scheme(in_flight[i]) # tagNegotiate
  /\ Count(tagBasic) > 0
       => /\ live_handles = {}
          /\ ctx = None
          /\ \A i \in 1..Len(in_flight) : auth_scheme(in_flight[i]) = tagBasic
  /\ \A i \in 1..Len(in_flight) :
       /\ auth_scheme(in_flight[i]) = sent[Len(sent)]
       /\ auth_scheme(in_flight[i]) = tagNegotiate => ctx = Some([package |-> "Negotiate", has_cred |-> TRUE, has_ctx |-> TRUE])
       /\ auth_scheme(in_flight[i]) = tagNTLM => ctx = Some([package |-> "NTLM", has_cred |-> TRUE, has_ctx |-> TRUE])

C2_EarlierStaysEnded ==
  /\ (Started("NTLM") \/ Count(tagBasic) > 0) => calls'["Negotiate"] = calls["Negotiate"]
  /\ Count(tagBasic) > 0 => calls' = calls

C2_SequentialPriorityOrder ==
  /\ [](C2_RequestOrder /\ Len(in_flight) <= 1 /\ C2_OnlyIfOffered /\ C2_EarlierEnded)
  /\ [][C2_EarlierStaysEnded]_vars

\* The Basic request is in flight after Negotiate and NTLM rounds.
C2_Witness ==
  /\ Count(tagNegotiate) = 2
  /\ Count(tagNTLM) = 2
  /\ Len(in_flight) = 1
  /\ auth_scheme(in_flight[1]) = tagBasic

---------------------------------------------------------------------------
\* C3: the first scheme attempt that ends with a response ends the call with
\* exactly that response: a Negotiate or NTLM round answered by anything but
\* a 401, and the Basic request answered by anything, a 401 included; no
\* request follows it and no scheme is attempted twice.
C3_ResponseEndsCall ==
  (ReceivedResponse /\ TheResponse.id >= 2 /\ TheResponse.id = Len(sent)
     /\ (sent[TheResponse.id] = tagBasic \/ TheResponse.status # 401))
    => /\ pc = "done"
       /\ result = Some(Ok(TheResponse))
       /\ in_flight = <<>>

C3_NoRetry ==
  /\ \A p \in Packages : calls[p].acquire <= 1
  /\ Count(tagBasic) <= 1

C3_FirstResponseEndsCall ==
  [](C3_ResponseEndsCall /\ C3_NoRetry) /\ [][ReturnedIsFinal]_vars

\* Basic was answered by a second 401, which is what the call returned.
C3_Witness ==
  /\ pc = "done"
  /\ Len(sent) >= 3
  /\ sent[Len(sent)] = tagBasic
  /\ Count(tagNTLM) > 0
  /\ result = Some(Ok([status |-> 401, www_authenticate |-> <<hBasic>>, id |-> Len(sent)]))

---------------------------------------------------------------------------
\* C4: when a Negotiate or NTLM attempt ends in an internal error (credential
\* acquisition or initializeContext provider error, round limit exceeded),
\* the error is not returned to the caller and the orchestrator goes on to
\* the next eligible scheme: NTLM if offered, then Basic if offered and the
\* credentials are Explicit.
InternalErrors ==
  {TooManyRoundtrips}
  \cup {AcquireCredentialsFailed(c) : c \in ProviderErrorCodes}
  \cup {InitializeContextFailed(c) : c \in ProviderErrorCodes}

C4_ErrorNotReturned ==
  /\ \A e \in InternalErrors : result # Some(Err(e))
  /\ \A p \in Packages : \A e \in InternalErrors :
       emitted = << <<p, "authentication failed", e>> >>
         => /\ result = None
            /\ ctx = None
            /\ pc = (IF p = "Negotiate" THEN "try_ntlm" ELSE "try_basic")

C4_NextEligible ==
  /\ pc = "try_ntlm" =>
       IF is_some(challenges.ntlm_token)
         THEN calls'["NTLM"].acquire = 1 /\ last_call' # None
         ELSE pc' = "try_basic"
  /\ (pc = "try_basic" /\ challenges.has_basic /\ creds.kind = "Explicit") =>
       /\ sent' = Append(sent, tagBasic)
       /\ Len(in_flight') = 1
       /\ result' = None

C4_InternalErrorFallsBack ==
  []C4_ErrorNotReturned /\ [][C4_NextEligible]_vars

\* Negotiate has just failed at the round limit and NTLM is offered.
C4_Witness ==
  /\ emitted = << <<"Negotiate", "authentication failed", TooManyRoundtrips>> >>
  /\ is_some(challenges.ntlm_token)
  /\ pc = "try_ntlm"

---------------------------------------------------------------------------
\* C5: whenever the initial response is 401, the SPN is derivable and no
\* scheme attempt yields a response (Basic included), the call fails with
\* AllMethodsFailed: an error raised inside a scheme attempt is never
\* returned to the caller directly.
C5_OnlyAllMethodsFailed ==
  (pc = "done" /\ spn # None /\ result # None /\ ~unwrap(result).ok)
    => result = Some(Err(AllMethodsFailed))

---------------------------------------------------------------------------
\* C6: in a Negotiate or NTLM handshake the round counter starts at 0, grows
\* by exactly 1 for each 401 carrying a continuation token of the same
\* scheme, and at MAX_ROUNDTRIPS = 5 the loop ends with the TooManyRoundtrips
\* error without a sixth initializeContext call or a sixth request.
TagOf(package) == IF package = "Negotiate" THEN tagNegotiate ELSE tagNTLM

LoopOf(package) == IF package = "Negotiate" THEN "negotiate_loop" ELSE "ntlm_loop"

AwaitOf(package) == IF package = "Negotiate" THEN "await_negotiate" ELSE "await_ntlm"

\* The header values of the environment that carry a decodable token.
TokenHeaders(package) ==
  IF package = "Negotiate" THEN {hNegotiateTok, hNegotiateTok2} ELSE {hNTLMTok}

\* The outcome is a 401 with a continuation token for the package.
Continuation(package, o) ==
  /\ o # None
  /\ unwrap(o).ok
  /\ unwrap(o).val.status = 401
  /\ \E i \in 1..Len(unwrap(o).val.www_authenticate) :
       unwrap(o).val.www_authenticate[i] \in TokenHeaders(package)

C6_Bounded ==
  \A p \in Packages :
    /\ calls[p].initialize <= 5
    /\ Count(TagOf(p)) <= 5
    /\ round <= 5
    /\ pc = LoopOf(p) => (round = calls[p].initialize /\ round = Count(TagOf(p)))
    /\ pc = AwaitOf(p) => (round + 1 = calls[p].initialize /\ round + 1 = Count(TagOf(p)))
    /\ (calls[p].acquire = 1 /\ calls[p].initialize = 0 /\ pc = LoopOf(p)) => round = 0

C6_Step ==
  \A p \in Packages :
    /\ pc = AwaitOf(p) =>
         IF Continuation(p, received')
           THEN round' = round + 1 /\ pc' = LoopOf(p)
           ELSE pc' # LoopOf(p)
    /\ (pc = LoopOf(p) /\ round = 5) =>
         /\ emitted' = << <<p, "authentication failed", TooManyRoundtrips>> >>
         /\ sent' = sent
         /\ calls' = calls
         /\ in_flight' = <<>>
         /\ result' = None
    /\ (pc = LoopOf(p) /\ round < 5) =>
         /\ calls'[p].initialize = calls[p].initialize + 1
         /\ Len(sent') <= Len(sent) + 1
         /\ pc' = AwaitOf(p) => round' = round

C6_RoundLimit == []C6_Bounded /\ [][C6_Step]_vars

\* NTLM has just failed at the round limit after five calls and five requests.
C6_Witness ==
  /\ emitted = << <<"NTLM", "authentication failed", TooManyRoundtrips>> >>
  /\ calls["NTLM"].initialize = 5
  /\ Count(tagNTLM) = 5

---------------------------------------------------------------------------
\* C7: Basic is attempted only with Explicit credentials: with CurrentUser
\* credentials and an initial 401 offering only Basic, the call fails with
\* AllMethodsFailed, the initial request is the only one sent and no request
\* carries a Basic Authorization header.
OnlyBasicOffered ==
  challenges = [negotiate_token |-> None, ntlm_token |-> None, has_basic |-> TRUE]

---------------------------------------------------------------------------
\* C8: when the initial 401 carries no Negotiate challenge and the client
\* authenticates as the current user, the call returns that 401 response
\* as-is (a response with status 401, not an error).
C8_Initial401ReturnedAsIs ==
  (pc = "done" /\ creds.kind = "CurrentUser" /\ spn # None
     /\ challenges.negotiate_token = None /\ challenges.ntlm_token = None)
    => /\ result # None
       /\ unwrap(result).ok
       /\ unwrap(result).val.status = 401
       /\ unwrap(result).val.id = 1

---------------------------------------------------------------------------
\* C9: when Basic is attempted, exactly one Basic request is sent, a clone of
\* the template carrying Authorization = "Basic " + base64(username ":"
\* password), and what that request resolves to is returned verbatim, a
\* second 401 included.
\* "Basic dTpw" for u:p, "Basic OnA=" for :p
BasicHeaderFor(c) ==
  IF c.username = txt_u /\ c.password = txt_p
    THEN << "B", "a", "s", "i", "c", " ", "d", "T", "p", "w" >>
    ELSE << "B", "a", "s", "i", "c", " ", "O", "n", "A", "=" >>

C9_BasicOnce ==
  /\ Count(tagBasic) <= 1
  /\ pc = "await_basic" => (Count(tagBasic) = 1 /\ Len(in_flight) = 1)
  /\ \A i \in 1..Len(in_flight) :
       auth_scheme(in_flight[i]) = tagBasic =>
         /\ authorization_of(in_flight[i]) = {BasicHeaderFor(creds)}
         /\ BasicHeaderFor(creds) =
              tagBasic \o <<" ">>
                \o base64_encode(as_bytes(creds.username \o <<":">> \o creds.password))
         /\ in_flight[i] =
              [request EXCEPT !.headers = @ \cup {<<AUTHORIZATION, BasicHeaderFor(creds)>>}]
  /\ (received # None /\ Len(sent) >= 2 /\ sent[Len(sent)] = tagBasic)
       => /\ pc = "done"
          /\ result = received
          /\ in_flight = <<>>

\* The only challenge was Basic; the Basic request got a second 401, returned.
C9_Witness ==
  /\ creds = Explicit(txt_u, txt_p)
  /\ sent = << tagNone, tagBasic >>
  /\ result = Some(Ok([status |-> 401, www_authenticate |-> <<hBasic>>, id |-> 2]))

---------------------------------------------------------------------------
\* C10: if the request cannot be cloned, the call fails at once with
\* NotReplayable: no request is sent, not even the initial one, and no
\* provider call is made.
C10_NotReplayable ==
  ~request.body.replayable
    => /\ pc \in {"start", "done"}
       /\ pc = "done" => result = Some(Err(NotReplayable))
       /\ sent = <<>>
       /\ in_flight = <<>>
       /\ \A p \in Packages : calls[p].acquire = 0 /\ calls[p].initialize = 0
       /\ last_call = None
       /\ live_handles = {}

\* A streaming request was refused.
C10_Witness ==
  /\ ~request.body.replayable
  /\ pc = "done"
  /\ result = Some(Err(NotReplayable))
  /\ sent = <<>>

---------------------------------------------------------------------------
\* C11: no formula.  try_clone fails only for a request whose body is a
\* stream, and the template is itself a clone, so the `ok_or_else` branches
\* of lines 194-196, 277-279 and 334-336 are taken in no run; the only clone
\* failure of a run is the one at entry (C10).

---------------------------------------------------------------------------
NoProviderCall == \A p \in Packages : calls[p].acquire = 0 /\ calls[p].initialize = 0

\* The call returned the response to its initial request, which is no 401.
InitialNon401Returned ==
  /\ pc = "done"
  /\ result # None
  /\ unwrap(result).ok
  /\ unwrap(result).val.id = 1
  /\ unwrap(result).val.status # UNAUTHORIZED

\* C12 (as stated): when the initial response has a status other than 401,
\* the call performs no request cloning, no challenge parsing and no
\* security-provider call at any point.
C12_NoCloneNoParseNoCall ==
  InitialNon401Returned => (clones = 0 /\ parses = 0 /\ NoProviderCall)

C12_UpToInitialResponse ==
  /\ pc = "start" => (clones = 0 /\ parses = 0 /\ NoProviderCall)
  /\ pc = "await_initial" => (clones = 1 /\ parses = 0 /\ NoProviderCall)
  /\ InitialNon401Returned =>
       (clones = 1 /\ parses = 0 /\ NoProviderCall /\ ctx = None /\ live_handles = {})

C12_AtInitialResponse ==
  /\ (pc = "await_initial" /\ received' # None /\ unwrap(received').ok
        /\ unwrap(received').val.status # UNAUTHORIZED)
       => (pc' = "done" /\ clones' = 1 /\ parses' = 0 /\ calls' = calls /\ last_call' = None)
  /\ pc = "done" => UNCHANGED << clones, parses, calls >>

\* C12 (amended): when the initial response has a status other than 401, the
\* call performs no challenge parsing and no security-provider call at any
\* point, and it clones the request exactly once: at entry, before the
\* initial request is sent, to make the template.
C12_OneCloneNoParseNoCall == []C12_UpToInitialResponse /\ [][C12_AtInitialResponse]_vars

\* A 403 that carries a Negotiate token was returned after one clone.
C12_Witness ==
  /\ InitialNon401Returned
  /\ unwrap(result).val.status = 403
  /\ unwrap(result).val.www_authenticate = <<hNegotiateTok>>
  /\ clones = 1
  /\ parses = 0

---------------------------------------------------------------------------
\* C13: when the server answers k consecutive Negotiate rounds (0 <= k < 5)
\* with a 401 carrying a new Negotiate token and then with a 2xx response,
\* the call has sent exactly 1 + (k + 1) requests and returns that response;
\* 401 bare Negotiate, 401 with a token, 200 makes 3 requests.
\* In a Negotiate attempt `round` is the number k of continuations so far:
\* every 401 of the call was parsed once, the initial one included.
C13_RoundsCounted ==
  /\ pc = "negotiate_loop" => (parses = 1 + round /\ Len(sent) = 1 + round)
  /\ pc = "await_negotiate" =>
       /\ round \in 0..(MAX_ROUNDTRIPS - 1)
       /\ parses = 1 + round
       /\ sent = <<tagNone>> \o [i \in 1..(round + 1) |-> tagNegotiate]

C13_SuccessAfterK ==
  /\ (pc = "await_negotiate" /\ Continuation("Negotiate", received'))
       => (round' = round + 1 /\ pc' = "negotiate_loop" /\ result' = None)
  /\ (pc = "await_negotiate" /\ received' # None /\ unwrap(received').ok
        /\ is_success(unwrap(received').val.status))
       => /\ pc' = "done"
          /\ result' = received'
          /\ sent' = sent
          /\ Len(sent') = 1 + (round + 1)
          /\ unwrap(result').val.id = Len(sent')

C13_NegotiateRoundsThenSuccess == []C13_RoundsCounted /\ [][C13_SuccessAfterK]_vars

\* 401 bare Negotiate, 401 with a token, then 200: three requests.
C13_Witness ==
  /\ challenges.negotiate_token = Some(None)
  /\ sent = << tagNone, tagNegotiate, tagNegotiate >>
  /\ parses = 3
  /\ result = Some(Ok([status |-> 200, www_authenticate |-> <<>>, id |-> 3]))

---------------------------------------------------------------------------
\* C14: when the initial response is 401 and the request URL has no host, the
\* call fails with the SPN derivation error before any scheme attempt: only
\* the initial request has been sent, no provider call is made and no request
\* carries an Authorization header, even when Basic is offered and the
\* credentials are Explicit.
NoHost == request.url.host = None

C14_NothingAttempted ==
  NoHost =>
    /\ pc \in {"start", "await_initial", "done", "cancelled"}
    /\ spn = None
    /\ NoProviderCall
    /\ ctx = None
    /\ live_handles = {}
    /\ Len(sent) <= 1
    /\ \A i \in 1..Len(sent) : sent[i] = tagNone
    /\ \A i \in 1..Len(in_flight) : authorization_of(in_flight[i]) = {}

C14_FailsAt401 ==
  (NoHost /\ pc = "await_initial" /\ received' # None /\ unwrap(received').ok
     /\ unwrap(received').val.status = UNAUTHORIZED)
    => /\ pc' = "done"
       /\ result' = Some(Err(SpnDerivationFailed))
       /\ sent' = << tagNone >>
       /\ in_flight' = <<>>

C14_SpnFailureBeforeAnyAttempt == []C14_NothingAttempted /\ [][C14_FailsAt401]_vars

\* Basic was offered to Explicit credentials, and yet the call failed on the SPN.
C14_Witness ==
  /\ NoHost
  /\ creds = Explicit(txt_u, txt_p)
  /\ challenges.has_basic
  /\ result = Some(Err(SpnDerivationFailed))
  /\ sent = << tagNone >>

---------------------------------------------------------------------------
\* C15: at every point of a call at most one security context (credential
\* handle and context handle) is live, it belongs to the one attempt that is
\* running, and every exit of an attempt (response returned, provider error,
\* round limit, missing token, transport error) releases its handles: no
\* handle is live when a lower-priority scheme starts or when the call
\* returns.
InAttempt(package) == pc \in {LoopOf(package), AwaitOf(package)}

C15_OneContext ==
  /\ ctx # None <=> \E p \in Packages : InAttempt(p)
  /\ ctx = None => live_handles = {}
  /\ ctx # None =>
       /\ InAttempt(unwrap(ctx).package)
       /\ unwrap(ctx).has_cred
       /\ live_handles = drop_handles(unwrap(ctx))
       /\ live_handles \subseteq {<<unwrap(ctx).package, "cred">>, <<unwrap(ctx).package, "ctx">>}
       /\ <<unwrap(ctx).package, "cred">> \in live_handles
  /\ pc \in {"try_negotiate", "try_ntlm", "try_basic", "await_basic", "done"}
       => live_handles = {}

C15_ExitReleases ==
  /\ (ctx # None /\ ctx' = None) => live_handles' = {}
  /\ emitted' # <<>> => (ctx' = None /\ live_handles' = {})
  /\ result' # None => (ctx' = None /\ live_handles' = {})
  /\ \A p \in Packages :
       (InAttempt(p) /\ ~InAttempt(p)') => (ctx' = None /\ live_handles' = {})

C15_ContextScopedToAttempt == []C15_OneContext /\ [][C15_ExitReleases]_vars

\* NTLM has just failed for want of a token, after a Negotiate attempt that
\* had a context of its own: nothing is left live.
C15_Witness ==
  /\ emitted = << <<"NTLM", "authentication failed", NoNewChallengeToken>> >>
  /\ calls["Negotiate"].initialize > 1
  /\ calls["NTLM"].initialize > 1
  /\ live_handles = {}
  /\ ctx = None

---------------------------------------------------------------------------
\* C16: if the call is cancelled while a request is in flight, in the middle
\* of a Negotiate or NTLM handshake included, the call makes no further
\* request or provider call and every credential and context handle it
\* acquired is released.
C16_Released ==
  pc = "cancelled" =>
    /\ live_handles = {}
    /\ ctx = None
    /\ in_flight = <<>>
    /\ result = None

C16_NothingAfter ==
  /\ pc = "cancelled" => UNCHANGED << pc, sent, calls, in_flight, live_handles, clones, result >>
  /\ (pc # "cancelled" /\ pc' = "cancelled") =>
       /\ Len(in_flight) = 1
       /\ sent' = sent
       /\ calls' = calls
       /\ last_call' = None

C16_CancelReleasesAndStops == []C16_Released /\ [][C16_NothingAfter]_vars

\* Cancelled while the second request of an NTLM handshake was in flight.
C16_Witness ==
  /\ pc = "cancelled"
  /\ calls["NTLM"].initialize = 2
  /\ Count(tagNTLM) = 2
  /\ live_handles = {}

---------------------------------------------------------------------------
\* C17: two calls interleaved arbitrarily at their suspension points share no
\* mutable state. Each keeps its own template, round counter, input token and
\* security context: a step of the running call changes nothing of the
\* suspended one, and a switch hands each call back exactly what it had. So
\* two calls given the same request, credentials and server responses send
\* the same requests in the same order, whatever the interleaving (the run
\* where one of them is over before the other starts included), and return
\* the same result.
IsPrefix(a, b) == Len(a) <= Len(b) /\ SubSeq(b, 1, Len(a)) = a

\* The suspended call was given what the running call was given.
Twin ==
  /\ parked # <<>>
  /\ parked.request = request
  /\ parked.creds = creds
  /\ parked.script = script

C17_SameAsTwin ==
  Twin =>
    /\ IsPrefix(sent, parked.sent) \/ IsPrefix(parked.sent, sent)
    /\ (Len(sent) = Len(parked.sent) /\ in_flight # <<>> /\ parked.in_flight # <<>>)
         => in_flight = parked.in_flight
    /\ (pc = "done" /\ parked.pc = "done")
         => /\ sent = parked.sent
            /\ result = parked.result
            /\ calls = parked.calls

C17_OwnState ==
  /\ me' = me => parked' = parked
  /\ me' # me => (parked' = call_state /\ call_state' = parked)

C17_NoSharedState == []C17_SameAsTwin /\ [][C17_OwnState]_vars

\* Twins suspended in different handshakes: one awaits its second NTLM
\* response, the other a later Negotiate response, each with its own context,
\* round counter and input token.
C17_Witness ==
  /\ Twin
  /\ pc = "await_ntlm"
  /\ parked.pc = "await_negotiate"
  /\ ctx # None
  /\ parked.ctx # None
  /\ ctx # parked.ctx
  /\ round = 1
  /\ parked.round = 2
  /\ input_token # parked.input_token
  /\ original_request = parked.original_request

----------------------------------------------------------------------------
\* C18: every authenticated request of any round of any scheme is a clone of
\* the unmodified template: it has the original method, URL, body and
\* headers and differs only by one Authorization value, that of the current
\* round; the template is never changed, so no Authorization value of an
\* earlier round or scheme is carried by a later request.
WithoutAuthorization(req) ==
  [req EXCEPT !.headers = {h \in req.headers : h[1] # AUTHORIZATION}]

C18_ClonesOfTemplate ==
  /\ original_request # None => original_request = Some(request)
  /\ \A i \in 1..Len(in_flight) :
       /\ WithoutAuthorization(in_flight[i]) = request
       /\ in_flight[i].method = request.method
       /\ in_flight[i].url = request.url
       /\ in_flight[i].body = request.body
       /\ <<CONTENT_TYPE, txt_json>> \in in_flight[i].headers
       /\ Cardinality(authorization_of(in_flight[i])) =
            (IF pc = "await_initial" THEN 0 ELSE 1)
       /\ \A p \in Packages : pc = AwaitOf(p) => auth_scheme(in_flight[i]) = TagOf(p)
       /\ pc = "await_basic" => auth_scheme(in_flight[i]) = tagBasic

C18_ValueOfTheRound ==
  /\ original_request # None => original_request' = original_request
  /\ \A p \in Packages :
       (pc = LoopOf(p) /\ pc' = AwaitOf(p)) =>
         /\ Len(in_flight') = 1
         /\ authorization_of(in_flight'[1]) =
              { format_of(p) \o base64_encode(unwrap(last_call').outcome.val.token) }

C18_FreshCloneEachRound == []C18_ClonesOfTemplate /\ [][C18_ValueOfTheRound]_vars

\* The second NTLM request, sent after two Negotiate rounds, is the JSON POST
\* with one Authorization value.
C18_Witness ==
  /\ pc = "await_ntlm"
  /\ round = 1
  /\ Count(tagNegotiate) = 2
  /\ Len(in_flight) = 1
  /\ in_flight[1].headers =
       { <<CONTENT_TYPE, txt_json>>,
         <<AUTHORIZATION, << "N", "T", "L", "M", " ", "T", "g", "=", "=" >> >> }

---------------------------------------------------------------------------
\* The parser has scanned every header value: acc is its result.
ParseDone == values = <<>>

\* The header values of a scheme: bare or with a decodable token.
WellFormed(package) ==
  IF package = "Negotiate" THEN {hNegotiate, hNegotiateTok, hNegotiateTok2}
  ELSE {hNTLM, hNTLMTok, hNTLMTok2}

\* The header values of a scheme whose token does not decode.
BadToken(package) == IF package = "Negotiate" THEN {hNegotiateBad} ELSE {hNTLMBad}

\* What one well-formed header value says of its scheme.
ValueOf(h) ==
  IF h \in {hNegotiate, hNTLM} THEN Some(None)
  ELSE IF h \in {hNegotiateTok, hNTLMTok2} THEN Some(Some(<<1, 2>>))
  ELSE IF h = hNegotiateTok2 THEN Some(Some(<<3>>))
  ELSE Some(Some(<<255>>))

RECURSIVE OfScheme(_, _)
OfScheme(package, list) ==
  IF list = <<>> THEN <<>>
  ELSE (IF Head(list) \in WellFormed(package) \cup BadToken(package)
          THEN <<Head(list)>> ELSE <<>>) \o OfScheme(package, Tail(list))

\* C19: when a response carries several headers of the same scheme with
\* different contents (one bare and one with a token, or two with different
\* tokens), the ChallengeSet keeps for that scheme the value of the first of
\* them in header order.
C19_FirstSeenWins ==
  ParseDone =>
    \A p \in Packages :
      LET hs == OfScheme(p, scanned) IN
      (/\ Len(hs) >= 2
       /\ \A i \in 1..Len(hs) : hs[i] \in WellFormed(p)
       /\ \E i \in 1..Len(hs) : hs[i] # hs[1])
        => challenge_of(p, acc) = ValueOf(hs[1])

---------------------------------------------------------------------------
\* The header value with a token that does not decode replaced by the bare
\* scheme name.
BareOf(h) ==
  IF h = hNegotiateBad THEN hNegotiate ELSE IF h = hNTLMBad THEN hNTLM ELSE h

\* C20: a Negotiate or NTLM header whose token fails base64 decoding is
\* treated as the bare scheme name (scheme offered, no token): the result is
\* the one the parser gives with that header replaced by the bare name, and
\* the other headers are parsed as they would be without it.
C20_BadTokenAsBare ==
  ParseDone =>
    acc = parse_www_authenticate([i \in 1..Len(scanned) |-> BareOf(scanned[i])])

---------------------------------------------------------------------------
\* The set of the values of a list.
Range(list) == {list[i] : i \in 1..Len(list)}

\* C21: for a response whose challenge headers are exactly a bare Negotiate,
\* a bare NTLM and a Basic realm challenge, in any of the 6 orders, the parser
\* yields negotiate offered without token, ntlm offered without token and
\* has_basic true: every header is reflected, whatever the order.
C21_OrderIndependent ==
  (/\ ParseDone
   /\ Len(scanned) = 3
   /\ Range(scanned) = {hNegotiate, hNTLM, hBasic})
    => acc = [negotiate_token |-> Some(None), ntlm_token |-> Some(None),
              has_basic |-> TRUE]

\* Basic first and Negotiate last, the reverse of the priority order.
C21_Witness ==
  /\ ParseDone
  /\ scanned = << hBasic, hNTLM, hNegotiate >>
  /\ acc = [negotiate_token |-> Some(None), ntlm_token |-> Some(None),
            has_basic |-> TRUE]

---------------------------------------------------------------------------
\* The number of characters before the first whitespace character.
RECURSIVE NameLen(_)
NameLen(s) == IF s = <<>> \/ is_whitespace(Head(s)) THEN 0 ELSE 1 + NameLen(Tail(s))

\* The scheme name of a challenge header value, in lower case.
SchemeName(h) == LET t == trim(h) IN to_lowercase(SubSeq(t, 1, NameLen(t)))

\* What follows the scheme name, without the whitespace around it.
TokenText(h) == LET t == trim(h) IN trim(SubSeq(t, NameLen(t) + 1, Len(t)))

\* The character that follows the scheme name ("" when there is none).
Separator(h) == LET t == trim(h) IN IF NameLen(t) < Len(t) THEN t[NameLen(t) + 1] ELSE ""

\* The header value is a bare scheme name, or a scheme name, whitespace and
\* a valid base64 token.
BareOrValidToken(h) == TokenText(h) = <<>> \/ is_some(base64_decode(TokenText(h)))

\* Offered without token for a bare name, offered with the decoded bytes
\* for a name and a token.
Offered(h) ==
  IF TokenText(h) = <<>> THEN Some(None)
  ELSE Some(Some(unwrap(base64_decode(TokenText(h)))))

\* What the claim says of the header value h when acc is the result of
\* parsing h alone.
SingleHeaderResult(h) ==
  /\ (SchemeName(h) = kwNegotiate /\ BareOrValidToken(h))
       => acc.negotiate_token = Offered(h)
  /\ (SchemeName(h) = kwNtlm /\ BareOrValidToken(h))
       => acc.ntlm_token = Offered(h)
  /\ SchemeName(h) = kwBasic
       => acc = [negotiate_token |-> None, ntlm_token |-> None, has_basic |-> TRUE]

\* C22 as stated: any whitespace may separate the scheme name from the token.
C22_SingleHeader ==
  (ParseDone /\ Len(scanned) = 1) => SingleHeaderResult(scanned[1])

\* C22: for a single challenge header value, with scheme names matched
\* case-insensitively: a bare Negotiate (resp. NTLM) yields that scheme
\* offered without token; a Negotiate (resp. NTLM) followed by a space,
\* optionally more whitespace, and a valid base64 token yields that scheme
\* offered with the decoded bytes; a Basic challenge with or without a realm
\* parameter sets has_basic and leaves negotiate and ntlm absent.
C22_SingleHeaderSpaceSeparated ==
  (ParseDone /\ Len(scanned) = 1 /\ Separator(scanned[1]) # Tab)
    => SingleHeaderResult(scanned[1])

\* Upper case name, two spaces before the token, spaces around the value.
C22_Witness ==
  /\ ParseDone
  /\ scanned = << hNegotiateWide >>
  /\ acc = [negotiate_token |-> Some(Some(<< 3 >>)), ntlm_token |-> None,
            has_basic |-> FALSE]

---------------------------------------------------------------------------
\* The scheme name of the header value is negotiate, ntlm or basic.
Recognized(h) == SchemeName(h) \in {kwNegotiate, kwNtlm, kwBasic}

\* The list without the header values of other schemes.
RECURSIVE RecognizedOnly(_)
RecognizedOnly(list) ==
  IF list = <<>> THEN <<>>
  ELSE (IF Recognized(Head(list)) THEN <<Head(list)>> ELSE <<>>)
         \o RecognizedOnly(Tail(list))

\* C23: a challenge header value whose scheme name is not exactly negotiate,
\* ntlm or basic (case-insensitively), a name that merely begins with one of
\* those words included, is ignored: the result is the one the parser gives
\* without that header.
C23_UnrecognizedIgnored ==
  ParseDone => acc = parse_www_authenticate(RecognizedOnly(scanned))

---------------------------------------------------------------------------
\* C24: derive_spn returns "HTTP/" followed by the host of the URL only, with
\* no port, scheme or path (https://srv:8080/api gives HTTP/srv), and returns
\* an error exactly when the URL has no host.
C24_HostOnly ==
  /\ spn # None =>
       /\ ~NoHost
       /\ unwrap(spn) = <<"H", "T", "T", "P", "/">> \o unwrap(request.url.host)
       /\ \A i \in 1..Len(unwrap(spn)) : unwrap(spn)[i] \notin {":", "8", "0"}
  /\ result = Some(Err(SpnDerivationFailed)) => NoHost

\* The step that derives the SPN: the initial 401.
C24_ErrorIffNoHost ==
  (pc = "await_initial" /\ received' # None /\ unwrap(received').ok
     /\ unwrap(received').val.status = UNAUTHORIZED)
    => IF NoHost
         THEN result' = Some(Err(SpnDerivationFailed)) /\ spn' = None
         ELSE result' = None /\ spn' # None

C24_DeriveSpn == []C24_HostOnly /\ [][C24_ErrorIffNoHost]_vars

\* https://srv:8080/api gave HTTP/srv.
C24_Witness ==
  /\ request.url = [scheme |-> "https", host |-> Some(<<"s", "r", "v">>),
                    port |-> Some(8080), path |-> "/api"]
  /\ spn = Some(<<"H", "T", "T", "P", "/", "s", "r", "v">>)
  /\ pc = "try_negotiate"

---------------------------------------------------------------------------
\* The character ch does not occur in the text s.
Without(s, ch) == \A i \in 1..Len(s) : s[i] # ch

\* The identity the claim requires for a non-empty username.
C25_Split(username, d) ==
  IF ~Without(username, "@") /\ Without(username, "\\") THEN
    /\ d.user \o << "@" >> \o d.domain = username
    /\ Without(d.user, "@")
  ELSE IF ~Without(username, "\\") /\ Without(username, "@") THEN
    /\ d.domain \o << "\\" >> \o d.user = username
    /\ Without(d.domain, "\\")
  ELSE (Without(username, "@") /\ Without(username, "\\"))
         => (d.user = username /\ d.domain = <<>>)

\* C25: acquire_credentials uses the ambient session identity (no auth data)
\* for CurrentUser and for Explicit with an empty username whatever the
\* password, and the supplied username and password for Explicit with a
\* non-empty username: user@DOMAIN is split into (user, DOMAIN), DOMAIN\user
\* into (user, DOMAIN), and a name with neither separator is passed whole
\* with an empty domain.  On success the context holds a credential handle,
\* on failure it does not.
C25_AcquireStep ==
  (last_call' # None /\ unwrap(last_call').op = "acquire_credentials") =>
    LET call == unwrap(last_call')
        handle == << call.package, "cred" >>
    IN  /\ IF creds.kind = "CurrentUser" \/ creds.username = <<>>
             THEN call.auth_data = None
             ELSE /\ call.auth_data # None
                  /\ unwrap(call.auth_data).password = creds.password
                  /\ C25_Split(creds.username, unwrap(call.auth_data))
        /\ IF call.outcome.ok
             THEN /\ ctx' # None
                  /\ unwrap(ctx').has_cred
                  /\ handle \in live_handles'
             ELSE /\ ctx' = None
                  /\ handle \notin live_handles'

C25_AcquireCredentials == [][C25_AcquireStep]_vars

\* DOMAIN\user: the NTLM attempt acquired credentials for user "u" of
\* domain "D".
C25_Witness ==
  /\ creds = Explicit(<< "D", "\\", "u" >>, txt_p)
  /\ last_call = Some([op |-> "acquire_credentials", package |-> "NTLM",
                       auth_data |-> Some([user |-> << "u" >>, domain |-> << "D" >>,
                                           password |-> txt_p]),
                       outcome |-> Ok(TRUE)])
  /\ ctx # None
  /\ unwrap(ctx).has_cred

---------------------------------------------------------------------------
\* The two calls were given the same request, username and scenario, and
\* different passwords.
DifferInPasswordOnly ==
  /\ parked # <<>>
  /\ parked.request = request
  /\ parked.script = script
  /\ creds.kind = "Explicit"
  /\ parked.creds.kind = "Explicit"
  /\ parked.creds.username = creds.username
  /\ parked.creds.password # creds.password

\* C26: no log record and no error message returned to the caller contains
\* the password of Explicit credentials: two runs that differ only in the
\* password and receive the same provider results and server responses emit
\* the same log records in the same order and return the same error.
C26_PasswordNotObservable ==
  DifferInPasswordOnly =>
    /\ IsPrefix(log, parked.log) \/ IsPrefix(parked.log, log)
    /\ (pc = "done" /\ parked.pc = "done") =>
         /\ log = parked.log
         /\ (~unwrap(result).ok \/ ~unwrap(parked.result).ok) => result = parked.result

\* Both runs logged the failure of both handshakes, sent their own Basic
\* header and got the same transport error back.
C26_Witness ==
  /\ DifferInPasswordOnly
  /\ pc = "done"
  /\ parked.pc = "done"
  /\ Len(log) = 2
  /\ log = parked.log
  /\ sent[Len(sent)] = tagBasic
  /\ ~unwrap(result).ok
  /\ result = parked.result

---------------------------------------------------------------------------
\* The token of the package carried by the 401 outcome o.
ContinuationToken(package, o) ==
  LET hs == unwrap(o).val.www_authenticate
      i == CHOOSE i \in 1..Len(hs) : hs[i] \in TokenHeaders(package)
  IN  unwrap(base64_decode(TokenText(hs[i])))

\* A 401 arrives in the handshake of package p.
C27_On401(p) ==
  (pc = AwaitOf(p) /\ received' # None /\ unwrap(received').ok
     /\ unwrap(received').val.status = UNAUTHORIZED)
    => IF Continuation(p, received')
         THEN /\ pc' = LoopOf(p)
              /\ round' = round + 1
              /\ input_token' = Some(ContinuationToken(p, received'))
              /\ ctx' = ctx
              /\ emitted' = <<>>
         ELSE /\ pc' = pc_after(p)
              /\ emitted' =
                   << <<p, "authentication failed",
                        negotiate(<<"Server returned 401 without new challenge token">>)>> >>
              /\ ctx' = None
              /\ calls' = calls
              /\ sent' = sent
              /\ in_flight' = <<>>
              /\ result' = None

\* Outside the attempt of package p no provider call is made and no request
\* is sent for p.
C27_NothingFurther(p) ==
  pc \notin {pc_try(p), LoopOf(p), AwaitOf(p)}
    => /\ calls'[p] = calls[p]
       /\ \A i \in 1..Len(sent') : i > Len(sent) => sent'[i] # TagOf(p)

\* C27: inside a Negotiate (resp. NTLM) handshake another round is started
\* if and only if the response is a 401 that carries a decodable token for
\* that same scheme; a 401 that carries only a bare challenge of the scheme,
\* only a token of the other scheme, only Basic, or no challenge, ends the
\* attempt with the 'no new challenge token' error, and no provider call and
\* no request for that scheme follows.
C27_ContinueOnlyOnSameSchemeToken ==
  [][\A p \in Packages : C27_On401(p) /\ C27_NothingFurther(p)]_vars

\* The NTLM handshake was answered by a 401 that carries a Negotiate token
\* only: the attempt ended after one provider call and one request.
C27_Witness ==
  /\ emitted =
       << <<"NTLM", "authentication failed",
            negotiate(<<"Server returned 401 without new challenge token">>)>> >>
  /\ received # None
  /\ unwrap(received).ok
  /\ unwrap(received).val.www_authenticate = <<hNegotiateTok>>
  /\ calls["NTLM"].initialize = 1
  /\ Count(tagNTLM) = 1
  /\ pc = "try_basic"

---------------------------------------------------------------------------
\* A response with a status other than 401 arrives in the handshake of p.
C28_OnOtherStatus(p) ==
  (pc = AwaitOf(p) /\ received' # None /\ unwrap(received').ok
     /\ unwrap(received').val.status # UNAUTHORIZED)
    => /\ pc' = "done"
       /\ result' = received'
       /\ sent' = sent
       /\ calls' = calls
       /\ in_flight' = <<>>
       /\ ctx' = None
       /\ live_handles' = {}

\* Once the call has returned nothing happens any more.
C28_Over == pc = "done" => UNCHANGED vars

\* C28: a response with a status other than 401 received in a Negotiate or
\* NTLM handshake round, 2xx or not (403), ends the handshake and the whole
\* call with that response: no further provider call, no further request, no
\* fallback to a lower-priority scheme.
C28_Non401EndsCall ==
  [][C28_Over /\ \A p \in Packages : C28_OnOtherStatus(p)]_vars

\* A 403 in the second Negotiate round is returned although NTLM and Basic
\* were offered to Explicit credentials.
C28_Witness ==
  /\ pc = "done"
  /\ creds = Explicit(txt_u, txt_p)
  /\ challenges.ntlm_token # None
  /\ challenges.has_basic
  /\ sent = << tagNone, tagNegotiate, tagNegotiate >>
  /\ result # None
  /\ unwrap(result).ok
  /\ unwrap(result).val.status = 403
  /\ unwrap(result).val.id = 3
  /\ calls["NTLM"].acquire = 0

---------------------------------------------------------------------------
\* Every authenticated request of package p was preceded by its own
\* initialize_context call; at most one call (a failed one) sent none.
C29_OneCallPerRequest ==
  \A p \in Packages :
    /\ Count(TagOf(p)) <= calls[p].initialize
    /\ calls[p].initialize <= Count(TagOf(p)) + 1
    /\ pc \in {LoopOf(p), AwaitOf(p)} => calls[p].initialize = Count(TagOf(p))

\* The head of a round of package p, below the round limit.
C29_Round(p) ==
  (pc = LoopOf(p) /\ round < MAX_ROUNDTRIPS) =>
    /\ calls'[p].initialize = calls[p].initialize + 1
    /\ last_call' # None
    /\ LET call == unwrap(last_call') IN
       /\ call.op = "initialize_context"
       /\ call.package = p
       /\ call.spn = unwrap(spn)
       /\ IF round = 0
            THEN /\ call.input_token = None
                 /\ ~call.existing_ctx
            ELSE /\ Continuation(p, received)
                 /\ call.input_token = Some(ContinuationToken(p, received))
                 /\ call.existing_ctx
       /\ IF call.outcome.ok
            THEN sent' = Append(sent, TagOf(p)) /\ pc' = AwaitOf(p)
            ELSE sent' = sent /\ pc' = pc_after(p)

\* No authenticated request of p is sent on any other step.
C29_OnlyThere(p) ==
  Count(TagOf(p))' # Count(TagOf(p)) => (pc = LoopOf(p) /\ round < MAX_ROUNDTRIPS)

\* C29: in every handshake attempt exactly one initialize_context call
\* precedes each authenticated request; the call of round 0 is made with no
\* input token and no existing context, even when the initial 401 carried a
\* token for the scheme, and the call of each round k >= 1 is made with the
\* token decoded from the 401 of round k-1 and with the context established
\* by the earlier calls of the attempt.
C29_InitializePerRound ==
  /\ []C29_OneCallPerRequest
  /\ [][\A p \in Packages : C29_Round(p) /\ C29_OnlyThere(p)]_vars

\* The initial 401 carried the Negotiate token 01 02, and the first call of
\* the Negotiate attempt was made without it.
C29_Witness ==
  /\ challenges.negotiate_token = Some(Some(<< 1, 2 >>))
  /\ pc = "await_negotiate"
  /\ round = 0
  /\ last_call # None
  /\ unwrap(last_call).op = "initialize_context"
  /\ unwrap(last_call).input_token = None
  /\ ~unwrap(last_call).existing_ctx
  /\ sent = << tagNone, tagNegotiate >>

---------------------------------------------------------------------------
\* The scheme name of the attempt, as it is written on the wire.
SchemeText(p) ==
  IF p = "Negotiate" THEN << "N", "e", "g", "o", "t", "i", "a", "t", "e" >>
  ELSE << "N", "T", "L", "M" >>

\* The base64 text of the output tokens of the provider: 4E is Tg==, 60 82 is
\* YII=.
TokenBase64(t) ==
  IF t = << 78 >> THEN << "T", "g", "=", "=" >> ELSE << "Y", "I", "I", "=" >>

\* The request in flight in the handshake of p carries one Authorization
\* value: the scheme of p, a space, and the base64 text of the token that the
\* initialize_context call of this round returned.
C30_HeaderOfTheRound ==
  \A p \in Packages :
    pc = AwaitOf(p) =>
      /\ Len(in_flight) = 1
      /\ last_call # None
      /\ unwrap(last_call).op = "initialize_context"
      /\ unwrap(last_call).package = p
      /\ unwrap(last_call).outcome.ok
      /\ authorization_of(in_flight[1]) =
           { SchemeText(p) \o << " " >> \o TokenBase64(unwrap(last_call).outcome.val.token) }

\* A request sent in the attempt of p carries the scheme of p, and the token
\* returned on this very step, not that of an earlier round.
C30_SentInRound ==
  \A p \in Packages :
    (pc = LoopOf(p) /\ Len(sent') = Len(sent) + 1) =>
      /\ sent'[Len(sent')] = SchemeText(p)
      /\ authorization_of(in_flight'[1]) =
           { SchemeText(p) \o << " " >> \o TokenBase64(unwrap(last_call').outcome.val.token) }

\* C30: the Authorization header of the request sent in a handshake round is
\* the attempt's own scheme name, a space, and the base64 encoding of the
\* output token returned by the initialize_context call of that same round:
\* a Negotiate attempt only sends "Negotiate <token>", an NTLM attempt only
\* "NTLM <token>", and the token of an earlier round is not sent in place of
\* the token of the round.
C30_AuthorizationOfRound == []C30_HeaderOfTheRound /\ [][C30_SentInRound]_vars

\* The second NTLM round sends YII=, the token returned in that round.
C30_Witness ==
  /\ pc = "await_ntlm"
  /\ round = 1
  /\ unwrap(last_call).outcome.val.token = << 96, 130 >>
  /\ authorization_of(in_flight[1]) =
       { << "N", "T", "L", "M", " ", "Y", "I", "I", "=" >> }
  /\ calls["NTLM"].initialize = 2

---------------------------------------------------------------------------
\* The call is over: it has returned, or its future was dropped.
Terminated == pc \in {"done", "cancelled"}

\* 1 initial, at most 5 Negotiate, at most 5 NTLM, at most 1 Basic.
C31_AtMostTwelve ==
  /\ Len(sent) <= 12
  /\ Count(tagNone) <= 1
  /\ Count(tagNegotiate) <= 5
  /\ Count(tagNTLM) <= 5
  /\ Count(tagBasic) <= 1

\* C31: provided each request execution and each provider call returns,
\* every call terminates, and it sends at most 12 requests in total (1
\* initial, at most 5 Negotiate, at most 5 NTLM, at most 1 Basic) whatever
\* the server answers.
C31_TerminatesWithinTwelve == <>Terminated /\ []C31_AtMostTwelve

\* The call is over after twelve requests.
C31_Witness ==
  /\ pc = "done"
  /\ Len(sent) = 12
  /\ Count(tagNegotiate) = 5
  /\ Count(tagNTLM) = 5
  /\ Count(tagBasic) = 1

---------------------------------------------------------------------------
\* The response the call returned answers the last request it sent.
C32_AnswersLastRequest ==
  (result # None /\ unwrap(result).ok)
    => /\ unwrap(result).val.id = Len(sent)
       /\ in_flight = <<>>
       /\ pc = "done"

\* A response is returned on the step on which it arrives.
C32_ReturnedOnArrival ==
  (result' # result /\ result' # None /\ unwrap(result').ok) => received' = result'

\* When all schemes have failed the call returns an error, not a response.
C32_ErrorAfterFailure ==
  (pc = "try_basic" /\ pc' = "done") => ~unwrap(result').ok

---------------------------------------------------------------------------
\* Only the schemes that `challenges` offers have been attempted.
C33_OnlyOffered ==
  /\ (calls["Negotiate"].acquire > 0 \/ Count(tagNegotiate) > 0)
       => challenges.negotiate_token # None
  /\ (calls["NTLM"].acquire > 0 \/ Count(tagNTLM) > 0)
       => challenges.ntlm_token # None
  /\ Count(tagBasic) > 0 => challenges.has_basic

\* `challenges` is the parse of the initial 401 and is never written again.
C33_FixedByInitial401 ==
  /\ (pc = "await_initial" /\ received' # None /\ unwrap(received').ok
        /\ unwrap(received').val.status = UNAUTHORIZED)
       => challenges' = parse_www_authenticate(unwrap(received').val.www_authenticate)
  /\ pc # "await_initial" => challenges' = challenges

\* A later 401 gives the handshake of p its next input token and nothing else.
C33_LaterOnlyToken ==
  \A p \in Packages :
    (pc = AwaitOf(p) /\ received' # None /\ unwrap(received').ok
       /\ unwrap(received').val.status = UNAUTHORIZED)
      => /\ challenges' = challenges
         /\ pc' \in {LoopOf(p), pc_after(p)}
         /\ IF pc' = LoopOf(p)
              THEN /\ Continuation(p, received')
                   /\ input_token' = Some(ContinuationToken(p, received'))
              ELSE input_token' = None

\* C33: the candidate schemes of a call are fixed by the challenges of the
\* initial 401 only: a scheme that the initial 401 did not offer is never
\* attempted, even when a later 401 received during a handshake offers it,
\* and the challenges of later responses are used only to read the
\* continuation token of the scheme being attempted.
C33_CandidatesFromInitial401 ==
  []C33_OnlyOffered /\ [][C33_FixedByInitial401 /\ C33_LaterOnlyToken]_vars

\* The initial 401 offered Negotiate only; the 401 that ended the Negotiate
\* attempt offered NTLM and Basic, to Explicit credentials.
C33_Witness ==
  /\ challenges = [negotiate_token |-> Some(None), ntlm_token |-> None,
                   has_basic |-> FALSE]
  /\ creds = Explicit(txt_u, txt_p)
  /\ pc = "try_ntlm"
  /\ received # None
  /\ unwrap(received).ok
  /\ unwrap(received).val.status = UNAUTHORIZED
  /\ unwrap(received).val.www_authenticate = << hNTLM, hBasic >>
  /\ sent = << tagNone, tagNegotiate >>

---------------------------------------------------------------------------
\* execute_fn returns an error for the authenticated request of the
\* handshake of p.
C34_OnTransportError(p) ==
  (pc = AwaitOf(p) /\ received' # None /\ ~unwrap(received').ok)
    => /\ result' = None
       /\ pc' = pc_after(p)
       /\ emitted' = << <<p, "authentication failed", unwrap(received').val>> >>
       /\ ctx' = None
       /\ live_handles' = {}
       /\ sent' = sent

\* The scheme after p is attempted when it is eligible.
C34_NextAttempted ==
  /\ (pc = "try_ntlm" /\ challenges.ntlm_token # None)
       => calls'["NTLM"].acquire = calls["NTLM"].acquire + 1
  /\ (pc = "try_basic" /\ challenges.has_basic /\ creds.kind = "Explicit")
       => (sent' = Append(sent, tagBasic) /\ pc' = "await_basic")

\* C34: a transport error returned by execute_fn for an authenticated request
\* inside a Negotiate or NTLM attempt is a failure of that scheme only: it is
\* not returned to the caller at that point and the orchestrator goes on to
\* the next eligible scheme, which sends a further request.
C34_TransportErrorFallsBack ==
  [][C34_NextAttempted /\ \A p \in Packages : C34_OnTransportError(p)]_vars

\* The Negotiate request failed in transport, and the NTLM request is in
\* flight.
C34_Witness ==
  /\ log = << <<"Negotiate", "authentication failed", TransportError>> >>
  /\ sent = << tagNone, tagNegotiate, tagNTLM >>
  /\ pc = "await_ntlm"
  /\ result = None

---------------------------------------------------------------------------
\* execute_fn returns an error for the initial request.
C35_OnInitialError ==
  (pc = "await_initial" /\ received' # None /\ ~unwrap(received').ok)
    => /\ pc' = "done"
       /\ result' = received'
       /\ sent' = << tagNone >>
       /\ in_flight' = <<>>
       /\ parses' = 0
       /\ challenges' = NoChallenges
       /\ spn' = None
       /\ last_call' = None
       /\ emitted' = <<>>

\* The call that ended on the error of its initial request has parsed
\* nothing, derived no SPN, called no provider and sent nothing else.
C35_NothingElse ==
  (pc = "done" /\ Len(sent) = 1 /\ result # None /\ ~unwrap(result).ok
     /\ unwrap(result).val = TransportError)
    => /\ parses = 0
       /\ challenges = NoChallenges
       /\ spn = None
       /\ \A p \in Packages : calls[p] = [acquire |-> 0, initialize |-> 0]
       /\ live_handles = {}
       /\ log = <<>>

\* C35: if execute_fn returns an error for the initial unauthenticated
\* request, the call returns that same error directly, and no challenge
\* parsing, SPN derivation, provider call or further request happens.
C35_InitialErrorReturned ==
  []C35_NothingElse /\ [][C35_OnInitialError /\ ReturnedIsFinal]_vars

\* The initial request of a call with Explicit credentials failed in
\* transport.
C35_Witness ==
  /\ pc = "done"
  /\ creds = Explicit(txt_u, txt_p)
  /\ sent = << tagNone >>
  /\ received = Some(Err(TransportError))
  /\ result = Some(Err(TransportError))
  /\ parses = 0

---------------------------------------------------------------------------
\* The initialize_context call of the round in flight reported the handshake
\* complete.
ReportedComplete ==
  /\ last_call # None
  /\ unwrap(last_call).op = "initialize_context"
  /\ unwrap(last_call).outcome.ok
  /\ unwrap(last_call).outcome.val.is_complete

\* What the handshake of p does with a response is the same whether the
\* provider reported complete or not: a 401 with a token of p starts the next
\* round.
C36_ContinuesAfterComplete(p) ==
  (pc = AwaitOf(p) /\ ReportedComplete /\ Continuation(p, received'))
    => /\ pc' = LoopOf(p)
       /\ round' = round + 1
       /\ input_token' = Some(ContinuationToken(p, received'))
       /\ ctx' = ctx
       /\ result' = None

\* The round that follows makes its provider call and sends its request,
\* unless the round limit is reached.
C36_NextRound(p) ==
  (pc = LoopOf(p) /\ round >= 1) =>
    IF round < MAX_ROUNDTRIPS
      THEN /\ calls'[p].initialize = calls[p].initialize + 1
           /\ unwrap(last_call').outcome.ok => sent' = Append(sent, TagOf(p))
      ELSE calls' = calls /\ sent' = sent

\* C36: the completion flag returned by initialize_context never influences
\* the handshake: whether a further round runs depends only on the server's
\* response, so after the provider has reported the handshake complete a 401
\* carrying a same-scheme token still causes another initialize_context call
\* and another authenticated request, up to the round limit.
C36_CompletionFlagIgnored ==
  [][\A p \in Packages : C36_ContinuesAfterComplete(p) /\ C36_NextRound(p)]_vars

\* The first call of the Negotiate attempt reported complete, the server
\* answered 401 with a token, and a second call was made and a second
\* request sent.
C36_Witness ==
  /\ pc = "await_negotiate"
  /\ round = 1
  /\ calls["Negotiate"].initialize = 2
  /\ sent = << tagNone, tagNegotiate, tagNegotiate >>
  /\ input_token = Some(<< 1, 2 >>)
  /\ ReportedComplete

---------------------------------------------------------------------------
\* The NTLM attempt begins, after whatever the Negotiate attempt did: round 0,
\* no input token, a new context that holds the credential handle only.
C37_FreshStart ==
  (pc = "try_ntlm" /\ pc' = "ntlm_loop")
    => /\ round' = 0
       /\ input_token' = None
       /\ ctx' = Some([package |-> "NTLM", has_cred |-> TRUE, has_ctx |-> FALSE])

\* The round counter of the NTLM attempt counts the NTLM requests alone.
C37_OwnRounds ==
  /\ pc = "ntlm_loop" => round = Count(tagNTLM)
  /\ pc = "await_ntlm" => round = Count(tagNTLM) - 1

\* The provider calls of the NTLM attempt: the first has no input token and
\* no existing security context, the later ones have the token of the NTLM
\* challenge; a token of a Negotiate challenge never reaches them.
C37_OwnTokens ==
  (/\ last_call # None
   /\ unwrap(last_call).op = "initialize_context"
   /\ unwrap(last_call).package = "NTLM")
    => /\ unwrap(last_call).existing_ctx = (calls["NTLM"].initialize > 1)
       /\ unwrap(last_call).input_token =
            IF calls["NTLM"].initialize = 1 THEN None ELSE Some(<< 255 >>)

\* C37: each scheme attempt starts from fresh handshake state: when NTLM is
\* attempted after a failed Negotiate attempt its round counter is 0, its
\* input token is absent and its security context is new, so the rounds
\* consumed and the tokens received during the Negotiate attempt neither
\* reduce the five rounds available to NTLM nor reach the NTLM provider calls.
C37_FreshStatePerAttempt ==
  /\ []C37_OwnRounds
  /\ []C37_OwnTokens
  /\ [][C37_FreshStart]_vars

\* Negotiate used its five rounds and received tokens; NTLM is in its fifth
\* round all the same, called with the NTLM token.
C37_Witness ==
  /\ pc = "await_ntlm"
  /\ Count(tagNegotiate) = MAX_ROUNDTRIPS
  /\ Count(tagNTLM) = MAX_ROUNDTRIPS
  /\ round = 4
  /\ calls["Negotiate"].initialize = 5
  /\ calls["NTLM"].initialize = 5
  /\ last_call # None
  /\ unwrap(last_call).input_token = Some(<< 255 >>)

---------------------------------------------------------------------------
\* The log entry of an attempt of p that ended because acquire_credentials
\* failed.
AcquireFailureOf(p) ==
  { << p, "authentication failed", AcquireCredentialsFailed(code) >> :
      code \in ProviderErrorCodes }

\* acquire_credentials fails for p: the attempt is over on that step, with
\* the acquisition error, and the attempt has called initialize_context
\* never and sent nothing.
C38_OnAcquireFailure(p) ==
  (/\ pc = pc_try(p)
   /\ last_call' # None
   /\ unwrap(last_call').op = "acquire_credentials"
   /\ ~unwrap(last_call').outcome.ok)
    => /\ pc' = pc_after(p)
       /\ emitted' \in { << e >> : e \in AcquireFailureOf(p) }
       /\ ctx' = None
       /\ calls'[p].initialize = 0
       /\ sent' = sent
       /\ in_flight' = <<>>

\* An attempt that ended on the acquisition error made no initialize_context
\* call and sent no request of its scheme, then or later.
C38_NothingAfterFailure(p) ==
  (\E i \in 1..Len(log) : log[i] \in AcquireFailureOf(p))
    => /\ calls[p].initialize = 0
       /\ Count(TagOf(p)) = 0

\* Every initialize_context call is made on the context of its scheme, which
\* holds a credential handle acquired with success and still open.
C38_OnInitialize(p) ==
  calls'[p].initialize # calls[p].initialize
    => /\ ctx # None
       /\ unwrap(ctx).package = p
       /\ unwrap(ctx).has_cred
       /\ << p, "cred" >> \in live_handles
       /\ calls[p].acquire = 1

\* C38: if credential acquisition fails for a scheme, that attempt ends in
\* error before any initialize_context call and before any authenticated
\* request of that scheme is sent; hence initialize_context is only ever
\* invoked on a context that holds a successfully acquired credential handle.
C38_AcquireBeforeInitialize ==
  /\ [](\A p \in Packages : C38_NothingAfterFailure(p))
  /\ [][\A p \in Packages : C38_OnAcquireFailure(p) /\ C38_OnInitialize(p)]_vars

\* Acquisition failed for Negotiate, which called nothing and sent nothing;
\* it succeeded for NTLM, whose initialize_context call is in the record.
C38_Witness ==
  /\ pc = "await_ntlm"
  /\ log # <<>>
  /\ log[1] \in AcquireFailureOf("Negotiate")
  /\ calls["Negotiate"] = [acquire |-> 1, initialize |-> 0]
  /\ calls["NTLM"] = [acquire |-> 1, initialize |-> 1]
  /\ sent = << tagNone, tagNTLM >>
  /\ ctx = Some([package |-> "NTLM", has_cred |-> TRUE, has_ctx |-> TRUE])

---------------------------------------------------------------------------
\* Explicit credentials whose username is empty.
EmptyUsername == creds.kind = "Explicit" /\ creds.username = <<>>

\* "Basic " + base64(":p")
BasicHeaderEmptyUsername == << "B", "a", "s", "i", "c", " ", "O", "n", "A", "=" >>

\* For the provider these credentials are the ambient identity: every
\* acquire_credentials call passes no identity.
C39_AmbientForProvider ==
  (/\ EmptyUsername
   /\ last_call # None
   /\ unwrap(last_call).op = "acquire_credentials")
    => unwrap(last_call).auth_data = None

\* With the same credentials, when the orchestrator comes to Basic and the
\* initial 401 offered it, the Basic request is sent: the original request
\* plus Authorization = "Basic " + base64(":" + password).
C39_BasicSent ==
  (pc = "try_basic" /\ EmptyUsername /\ challenges.has_basic)
    => /\ pc' = "await_basic"
       /\ sent' = Append(sent, tagBasic)
       /\ Len(in_flight') = 1
       /\ authorization_of(in_flight'[1]) = {BasicHeaderEmptyUsername}
       /\ BasicHeaderEmptyUsername =
            format_Basic \o base64_encode(as_bytes(<<":">> \o creds.password))
       /\ result' = None

\* One such request and no more.
C39_BasicOnce == EmptyUsername => Count(tagBasic) <= 1

\* C39: Basic fallback depends only on the credentials being of the Explicit
\* shape, not on the username being non-empty: for Explicit credentials with
\* an empty username, which the provider treats as the ambient identity for
\* Negotiate and NTLM, a server offering Basic still receives one request
\* with Authorization = "Basic " + base64(":" + password).
C39_BasicWithEmptyUsername ==
  /\ []C39_AmbientForProvider
  /\ []C39_BasicOnce
  /\ [][C39_BasicSent]_vars

\* Negotiate was tried with the ambient identity and failed; the Basic
\* request with the empty username is in flight.
C39_Witness ==
  /\ pc = "await_basic"
  /\ creds = Explicit(<<>>, txt_p)
  /\ calls["Negotiate"].acquire = 1
  /\ Count(tagBasic) = 1
  /\ Len(in_flight) = 1
  /\ authorization_of(in_flight[1]) = {BasicHeaderEmptyUsername}

====
